---- MODULE Spec2Model ----
(***************************************************************************)
(* A model of the YPBank record codec: the Record entity, its field        *)
(* validators, and the text, CSV and binary readers and writers.           *)
(*                                                                         *)
(* Text is a sequence of one-character strings; a binary stream is a       *)
(* sequence of bytes 0..255.  A u64 is kept as four 16-bit limbs (most     *)
(* significant first) and a u32 as two, so that the full 64-bit and 32-bit *)
(* ranges are represented without leaving TLC's integers.                  *)
(***************************************************************************)
EXTENDS Integers, Sequences, FiniteSets, TLC

VARIABLES
    input,          \* how the source was made up (fixed by Init, never read by the codec)
    fmt,            \* "text" | "csv" | "bin": the codec in use
    pc,             \* the position of the running read or write operation
    R,              \* the RecordSet handed to the writer (<<>> for a plain read)
    wi,             \* number of records of R already written
    out,            \* the sink the writer has filled so far
    src,            \* the source the reader consumes
    pos,            \* number of elements of src the reader has consumed
    records,        \* read_from_*: the Vec<Record> built so far
    cur,            \* from_text / from_csv / from_bin: the record under construction
    expected_keys,  \* from_text: the keys not yet seen in the current block
    values,         \* from_csv: the parts of the current line
    fi,             \* from_csv: number of parts already validated
    result,         \* the Result of the read operation once pc = "done"
    data1,          \* comparer: the records read from --file1
    data2,          \* comparer: the records read from --file2
    idx,            \* comparer: the number of pairs `position` has passed
    outcome,        \* comparer: what main printed or panicked with
    arg,            \* a single call of a conversion or validator: its arguments
    ret,            \* a single call: the value it returned
    mark            \* history: the value of pos when the read loop last tested its condition

vars == <<input, fmt, pc, R, wi, out, src, pos, records, cur, expected_keys, values, fi, result,
          data1, data2, idx, outcome, arg, ret, mark>>

\* The variables of the comparer, of a single call, and of the readers and
\* writers.
comparer_vars == <<data1, data2, idx, outcome>>
call_vars == <<arg, ret>>
codec_vars == <<fmt, R, wi, out, src, pos, records, cur, expected_keys, values, fi, result, mark>>

----------------------------------------------------------------------------
(* Sequences *)

\* The first index of c in s at or after position i, 0 when there is none.
IndexFrom(s, c, i) ==
    LET hits == {j \in i..Len(s) : s[j] = c}
    IN IF hits = {} THEN 0 ELSE CHOOSE j \in hits : \A k \in hits : j <= k

RECURSIVE Flatten(_)
Flatten(ss) == IF ss = <<>> THEN <<>> ELSE Head(ss) \o Flatten(Tail(ss))

StartsWith(s, c) == Len(s) > 0 /\ s[1] = c
\* A faulty variant of EndsWith that looks at no character.
EndsWith_anything(s, c) == Len(s) > 0

EndsWith(s, c) == Len(s) > 0 /\ s[Len(s)] = c

----------------------------------------------------------------------------
(* Characters and bytes *)

Digits == <<"0", "1", "2", "3", "4", "5", "6", "7", "8", "9">>

IsDigit(c) == \E i \in 1..10 : Digits[i] = c
DigitVal(c) == (CHOOSE i \in 1..10 : Digits[i] = c) - 1

NL == "\n"
QUOTE == "\""
\* A byte that no UTF-8 text contains: a line holding it cannot be decoded.
BadByte == "<FF>"
\* A character whose UTF-8 encoding takes two bytes (C3 A9).
EAcute == "<C3A9>"
\* Any other character of U+0080..U+07FF.
OtherTwoByte == "<U+0080..U+07FF>"

\* The ASCII characters, indexed by code + 1.
AsciiChars == <<
    "<00>", "<01>", "<02>", "<03>", "<04>", "<05>", "<06>", "<07>",
    "<08>", "\t", "\n", "<0B>", "<0C>", "\r", "<0E>", "<0F>",
    "<10>", "<11>", "<12>", "<13>", "<14>", "<15>", "<16>", "<17>",
    "<18>", "<19>", "<1A>", "<1B>", "<1C>", "<1D>", "<1E>", "<1F>",
    " ", "!", "\"", "#", "$", "%", "&", "'",
    "(", ")", "*", "+", ",", "-", ".", "/",
    "0", "1", "2", "3", "4", "5", "6", "7",
    "8", "9", ":", ";", "<", "=", ">", "?",
    "@", "A", "B", "C", "D", "E", "F", "G",
    "H", "I", "J", "K", "L", "M", "N", "O",
    "P", "Q", "R", "S", "T", "U", "V", "W",
    "X", "Y", "Z", "[", "\\", "]", "^", "_",
    "<60>", "a", "b", "c", "d", "e", "f", "g",
    "h", "i", "j", "k", "l", "m", "n", "o",
    "p", "q", "r", "s", "t", "u", "v", "w",
    "x", "y", "z", "{", "|", "}", "~", "<7F>" >>

\* str::as_bytes of one character.
Utf8(c) ==
    IF c = EAcute THEN <<195, 169>>
    ELSE <<(CHOOSE i \in 1..128 : AsciiChars[i] = c) - 1>>

\* str::as_bytes.
RECURSIVE as_bytes(_)
as_bytes(s) == IF s = <<>> THEN <<>> ELSE Utf8(Head(s)) \o as_bytes(Tail(s))

\* str::len: the length in bytes.
str_len(s) == Len(as_bytes(s))

\* String::from_utf8 for one- and two-byte sequences; every byte that starts
\* neither (a continuation byte, a truncated or longer sequence, FF) is an
\* error.
RECURSIVE from_utf8(_)
from_utf8(bs) ==
    IF bs = <<>> THEN [ok |-> TRUE, s |-> <<>>]
    ELSE IF bs[1] < 128 THEN
        LET rest == from_utf8(Tail(bs))
        IN [ok |-> rest.ok, s |-> <<AsciiChars[bs[1] + 1]>> \o rest.s]
    ELSE IF bs[1] \in 194..223 /\ Len(bs) >= 2 /\ bs[2] \in 128..191 THEN
        LET rest == from_utf8(SubSeq(bs, 3, Len(bs)))
            c == IF bs[1] = 195 /\ bs[2] = 169 THEN EAcute ELSE OtherTwoByte
        IN [ok |-> rest.ok, s |-> <<c>> \o rest.s]
    ELSE [ok |-> FALSE, s |-> <<>>]

----------------------------------------------------------------------------
(* Unsigned integers as 16-bit limbs, most significant limb first *)

LimbBase == 256 * 256

U64Zero == <<0, 0, 0, 0>>
U64Max == <<LimbBase - 1, LimbBase - 1, LimbBase - 1, LimbBase - 1>>

\* A small value as a u64, a u32, a u8 or a usize.
U64Of(n) == <<0, 0, 0, n>>
U32Of(n) == <<0, n>>
U8Of(n) == <<n>>

IsZero(v) == \A i \in 1..Len(v) : v[i] = 0

\* v divided by 10: quotient limbs and remainder.
RECURSIVE DivLimbs(_, _)
DivLimbs(v, rem) ==
    IF v = <<>> THEN [q |-> <<>>, r |-> rem]
    ELSE LET c == rem * LimbBase + Head(v)
             rest == DivLimbs(Tail(v), c % 10)
         IN [q |-> <<c \div 10>> \o rest.q, r |-> rest.r]

RECURSIVE LimbsToDec(_)
LimbsToDec(v) ==
    IF IsZero(v) THEN <<>>
    ELSE LET d == DivLimbs(v, 0) IN LimbsToDec(d.q) \o <<Digits[d.r + 1]>>

\* Display for u8, u32, u64 and usize: the decimal digits, no leading zero.
uint_to_string(v) == IF IsZero(v) THEN <<"0">> ELSE LimbsToDec(v)

\* v * 10 + carry on the limbs, from the least significant limb; the carry
\* that is left over is the overflow.
RECURSIVE MulAddLimbs(_, _)
MulAddLimbs(v, carry) ==
    IF v = <<>> THEN [limbs |-> <<>>, carry |-> carry]
    ELSE LET t == v[Len(v)] * 10 + carry
             rest == MulAddLimbs(SubSeq(v, 1, Len(v) - 1), t \div LimbBase)
         IN [limbs |-> rest.limbs \o <<t % LimbBase>>, carry |-> rest.carry]

\* A faulty variant of ParseDigits that drops the overflow instead of
\* failing on it.
RECURSIVE ParseDigits_wrapping(_, _)
ParseDigits_wrapping(s, acc) ==
    IF s = <<>> THEN [ok |-> TRUE, val |-> acc]
    ELSE IF ~IsDigit(Head(s)) THEN [ok |-> FALSE, val |-> U64Zero]
    ELSE ParseDigits_wrapping(Tail(s), MulAddLimbs(acc, DigitVal(Head(s))).limbs)

RECURSIVE ParseDigits(_, _)
ParseDigits(s, acc) ==
    IF s = <<>> THEN [ok |-> TRUE, val |-> acc]
    ELSE IF ~IsDigit(Head(s)) THEN [ok |-> FALSE, val |-> U64Zero]
    ELSE LET m == MulAddLimbs(acc, DigitVal(Head(s)))
         IN IF m.carry > 0 THEN [ok |-> FALSE, val |-> U64Zero]
            ELSE ParseDigits(Tail(s), m.limbs)

\* str::parse::<u64>: an optional leading "+", then one or more decimal
\* digits whose value fits in 64 bits.
parse_u64(s) ==
    LET digits == IF StartsWith(s, "+") THEN Tail(s) ELSE s
    IN IF digits = <<>> THEN [ok |-> FALSE, val |-> U64Zero]
       ELSE ParseDigits(digits, U64Zero)

\* byteorder::WriteBytesExt::write_u64 / write_u32 with BigEndian.
RECURSIVE to_be_bytes(_)
to_be_bytes(v) ==
    IF v = <<>> THEN <<>>
    ELSE <<Head(v) \div 256, Head(v) % 256>> \o to_be_bytes(Tail(v))

\* byteorder::ReadBytesExt::read_u64 / read_u32 with BigEndian.
from_be_bytes(bs) == [i \in 1..(Len(bs) \div 2) |-> bs[2 * i - 1] * 256 + bs[2 * i]]

\* n as a u32, n a byte count of the model (below 2^31).
U32OfNat(n) == <<n \div LimbBase, n % LimbBase>>

\* u32 + u32 (the sums of the model stay far below 2^32).
u32_add(a, b) ==
    LET lo == a[2] + b[2]
        hi == a[1] + b[1] + lo \div LimbBase
    IN <<hi % LimbBase, lo % LimbBase>>

\* a < b on limbs of equal length.
RECURSIVE limbs_lt(_, _)
limbs_lt(a, b) ==
    IF a = <<>> THEN FALSE
    ELSE IF Head(a) # Head(b) THEN Head(a) < Head(b)
    ELSE limbs_lt(Tail(a), Tail(b))

----------------------------------------------------------------------------
(* RecordKey, TxType, Status *)

EXPECTED_KEYS == <<"TxId", "TxType", "FromUserId", "ToUserId",
                   "Amount", "Timestamp", "Status", "Description">>

KeySet == {EXPECTED_KEYS[i] : i \in 1..Len(EXPECTED_KEYS)}

\* Display for RecordKey.
RecordKey_to_string(k) ==
    CASE k = "TxId" -> <<"T", "X", "_", "I", "D">>
      [] k = "TxType" -> <<"T", "X", "_", "T", "Y", "P", "E">>
      [] k = "FromUserId" -> <<"F", "R", "O", "M", "_", "U", "S", "E", "R", "_", "I", "D">>
      [] k = "ToUserId" -> <<"T", "O", "_", "U", "S", "E", "R", "_", "I", "D">>
      [] k = "Amount" -> <<"A", "M", "O", "U", "N", "T">>
      [] k = "Timestamp" -> <<"T", "I", "M", "E", "S", "T", "A", "M", "P">>
      [] k = "Status" -> <<"S", "T", "A", "T", "U", "S">>
      [] k = "Description" -> <<"D", "E", "S", "C", "R", "I", "P", "T", "I", "O", "N">>

\* TryFrom<&str> for RecordKey: Err(ParseKeyError::InvalidKey(s)) when s is
\* A faulty variant of RecordKey_try_from that takes every unknown name for
\* DESCRIPTION.
RecordKey_try_from_lenient(s) == [ok |-> TRUE, key |-> "Description"]

\* none of the eight names.
RecordKey_try_from(s) ==
    CASE s = <<"T", "X", "_", "I", "D">> -> [ok |-> TRUE, key |-> "TxId"]
      [] s = <<"T", "X", "_", "T", "Y", "P", "E">> -> [ok |-> TRUE, key |-> "TxType"]
      [] s = <<"F", "R", "O", "M", "_", "U", "S", "E", "R", "_", "I", "D">> ->
            [ok |-> TRUE, key |-> "FromUserId"]
      [] s = <<"T", "O", "_", "U", "S", "E", "R", "_", "I", "D">> ->
            [ok |-> TRUE, key |-> "ToUserId"]
      [] s = <<"A", "M", "O", "U", "N", "T">> -> [ok |-> TRUE, key |-> "Amount"]
      [] s = <<"T", "I", "M", "E", "S", "T", "A", "M", "P">> -> [ok |-> TRUE, key |-> "Timestamp"]
      [] s = <<"S", "T", "A", "T", "U", "S">> -> [ok |-> TRUE, key |-> "Status"]
      [] s = <<"D", "E", "S", "C", "R", "I", "P", "T", "I", "O", "N">> ->
            [ok |-> TRUE, key |-> "Description"]
      [] OTHER -> [ok |-> FALSE, key |-> ""]

TxTypes == {"Deposit", "Transfer", "Withdrawal"}

\* Display for TxType.
TxType_to_string(t) ==
    CASE t = "Deposit" -> <<"D", "E", "P", "O", "S", "I", "T">>
      [] t = "Transfer" -> <<"T", "R", "A", "N", "S", "F", "E", "R">>
      [] t = "Withdrawal" -> <<"W", "I", "T", "H", "D", "R", "A", "W", "A", "L">>

\* TryFrom<&str> for TxType.
TxType_try_from_str(s) ==
    CASE s = <<"D", "E", "P", "O", "S", "I", "T">> -> [ok |-> TRUE, val |-> "Deposit", err |-> <<>>]
      [] s = <<"T", "R", "A", "N", "S", "F", "E", "R">> -> [ok |-> TRUE, val |-> "Transfer", err |-> <<>>]
      [] s = <<"W", "I", "T", "H", "D", "R", "A", "W", "A", "L">> ->
            [ok |-> TRUE, val |-> "Withdrawal", err |-> <<>>]
      [] OTHER -> [ok |-> FALSE, val |-> "", err |-> s]

\* TryFrom<u8> for TxType.
TxType_try_from_u8(b) ==
    CASE b = 0 -> [ok |-> TRUE, val |-> "Deposit", err |-> <<>>]
      [] b = 1 -> [ok |-> TRUE, val |-> "Transfer", err |-> <<>>]
      [] b = 2 -> [ok |-> TRUE, val |-> "Withdrawal", err |-> <<>>]
      [] OTHER -> [ok |-> FALSE, val |-> "", err |-> uint_to_string(U8Of(b))]

\* A faulty variant of TxType_as_u8 with the codes of Deposit and Transfer
\* exchanged.
TxType_as_u8_exchanged(t) ==
    CASE t = "Deposit" -> 1
      [] t = "Transfer" -> 0
      [] t = "Withdrawal" -> 2

\* `self.tx_type as u8`: the discriminant, in declaration order.
TxType_as_u8(t) ==
    CASE t = "Deposit" -> 0
      [] t = "Transfer" -> 1
      [] t = "Withdrawal" -> 2

Statuses == {"Success", "Failure", "Pending"}

\* Display for Status.
Status_to_string(s) ==
    CASE s = "Success" -> <<"S", "U", "C", "C", "E", "S", "S">>
      [] s = "Failure" -> <<"F", "A", "I", "L", "U", "R", "E">>
      [] s = "Pending" -> <<"P", "E", "N", "D", "I", "N", "G">>

\* TryFrom<&str> for Status.
Status_try_from_str(s) ==
    CASE s = <<"S", "U", "C", "C", "E", "S", "S">> -> [ok |-> TRUE, val |-> "Success", err |-> <<>>]
      [] s = <<"F", "A", "I", "L", "U", "R", "E">> -> [ok |-> TRUE, val |-> "Failure", err |-> <<>>]
      [] s = <<"P", "E", "N", "D", "I", "N", "G">> -> [ok |-> TRUE, val |-> "Pending", err |-> <<>>]
      [] OTHER -> [ok |-> FALSE, val |-> "", err |-> s]

\* A faulty variant of Status_try_from_u8 that takes every code above 1 as
\* Pending.
Status_try_from_u8_lenient(b) ==
    CASE b = 0 -> [ok |-> TRUE, val |-> "Success", err |-> <<>>]
      [] b = 1 -> [ok |-> TRUE, val |-> "Failure", err |-> <<>>]
      [] OTHER -> [ok |-> TRUE, val |-> "Pending", err |-> <<>>]

\* TryFrom<u8> for Status.
Status_try_from_u8(b) ==
    CASE b = 0 -> [ok |-> TRUE, val |-> "Success", err |-> <<>>]
      [] b = 1 -> [ok |-> TRUE, val |-> "Failure", err |-> <<>>]
      [] b = 2 -> [ok |-> TRUE, val |-> "Pending", err |-> <<>>]
      [] OTHER -> [ok |-> FALSE, val |-> "", err |-> uint_to_string(U8Of(b))]

\* `self.status as u8`.
Status_as_u8(s) ==
    CASE s = "Success" -> 0
      [] s = "Failure" -> 1
      [] s = "Pending" -> 2

----------------------------------------------------------------------------
(* Errors.  A rendered message (to_string) is a sequence of strings: the    *)
(* fixed parts of the format string as one element each, the interpolated  *)
(* values character by character.                                          *)

\* ParseValueError::InvalidValue { value, description }.
InvalidValue(value, description) == [value |-> value, description |-> description]

NoValueError == InvalidValue(<<>>, <<>>)

\* Display for ParseTxTypeError::InvalidTxType / ParseStatusError::InvalidStatus.
InvalidTxType_to_string(value) == <<"Invalid TX_TYPE: ">> \o value
InvalidStatus_to_string(value) == <<"Invalid STATUS: ">> \o value

\* Display for ParseValueError.
ParseValueError_to_string(e) ==
    <<"Invalid value: ">> \o e.value \o <<" (">> \o e.description \o <<")">>

\* An error of Record::from_text / from_csv / from_bin.  `variant` is the
\* enum variant; the payload is in `text` (ColonNotFound, InvalidKey,
\* MissingKey, UnexpectedError), `verr` (InvalidValue), `count`
\* (InvalidCountOfColumns) or `size` (InvalidRecordSize).
ParseError(variant, text, verr, count, size) ==
    [variant |-> variant, text |-> text, verr |-> verr, count |-> count, size |-> size]

NoParseError == ParseError("", <<>>, NoValueError, 0, U32Of(0))

ColonNotFound(key) == ParseError("ColonNotFound", key, NoValueError, 0, U32Of(0))
InvalidKey(key) == ParseError("InvalidKey", key, NoValueError, 0, U32Of(0))
MissingKey(key) == ParseError("MissingKey", key, NoValueError, 0, U32Of(0))
InvalidValueError(verr) == ParseError("InvalidValue", <<>>, verr, 0, U32Of(0))
UnexpectedError(text) == ParseError("UnexpectedError", text, NoValueError, 0, U32Of(0))
InvalidCountOfColumns(n) == ParseError("InvalidCountOfColumns", <<>>, NoValueError, n, U32Of(0))
InvalidMagicNumber == ParseError("InvalidMagicNumber", <<>>, NoValueError, 0, U32Of(0))
InvalidRecordSize(v) == ParseError("InvalidRecordSize", <<>>, NoValueError, 0, v)

\* The messages of the std::io::Error values the readers meet.
InvalidUtf8Message == <<"stream did not contain valid UTF-8">>
UnexpectedEofMessage == <<"failed to fill whole buffer">>

\* Display for ParseRecordFromTxtError / ...CsvError / ...BinError.
ParseError_to_string(e) ==
    CASE e.variant = "ColonNotFound" -> <<"Colon after key=">> \o e.text \o <<" not found">>
      [] e.variant = "InvalidKey" -> <<"Invalid key: ">> \o e.text
      [] e.variant = "MissingKey" -> <<"Missing key: ">> \o e.text
      [] e.variant = "InvalidValue" -> ParseValueError_to_string(e.verr)
      [] e.variant = "UnexpectedError" -> <<"Unexpected error: ">> \o e.text
      [] e.variant = "InvalidCountOfColumns" ->
            <<"Invalid count of columns: ">> \o uint_to_string(<<e.count>>)
      [] e.variant = "InvalidMagicNumber" -> <<"Invalid magic number">>
      [] e.variant = "InvalidRecordSize" -> <<"Invalid record size: ">> \o uint_to_string(e.size)

\* ReadError::InvalidFormat(String) / ReadError::UnexpectedError(String).
ReadError(variant, message) == [variant |-> variant, message |-> message]

NoReadError == ReadError("", <<>>)

\* From<ParseRecordFromTxtError>, From<ParseRecordFromCsvError> and
\* From<ParseRecordFromBinError> for ReadError.
ReadError_from_parse(e) == ReadError("InvalidFormat", ParseError_to_string(e))

\* The three conversions, one by one.
ReadError_from_txt(e) == ReadError("InvalidFormat", ParseError_to_string(e))
ReadError_from_csv(e) == ReadError("InvalidFormat", ParseError_to_string(e))
ReadError_from_bin(e) == ReadError("InvalidFormat", ParseError_to_string(e))

\* From<std::io::Error> for ReadError.
ReadError_from_io(message) == ReadError("UnexpectedError", message)

----------------------------------------------------------------------------
(* Record and its validators *)

Record_new(tx_id, tx_type, from_user_id, to_user_id, amount, timestamp, status, description) ==
    [tx_id |-> tx_id, tx_type |-> tx_type, from_user_id |-> from_user_id,
     to_user_id |-> to_user_id, amount |-> amount, timestamp |-> timestamp,
     status |-> status, description |-> description]

Record_default ==
    Record_new(U64Zero, "Deposit", U64Zero, U64Zero, U64Zero, U64Zero, "Success", <<>>)

\* The outcome of a validate_and_set_* call: Ok(()) with the record
\* updated, Err(ParseValueError), or a panic.
Set(rec) == [kind |-> "Ok", rec |-> rec, err |-> NoValueError]
Reject(rec, value, description) ==
    [kind |-> "Err", rec |-> rec, err |-> InvalidValue(value, description)]
Panic(rec) == [kind |-> "Panic", rec |-> rec, err |-> NoValueError]

validate_and_set_tx_id(rec, value) ==
    LET p == parse_u64(value)
    IN IF p.ok THEN Set([rec EXCEPT !.tx_id = p.val])
       ELSE Reject(rec, value, <<"TX_ID is not a number">>)

validate_and_set_tx_type(rec, value) ==
    LET p == TxType_try_from_str(value)
    IN IF p.ok THEN Set([rec EXCEPT !.tx_type = p.val])
       ELSE Reject(rec, value, InvalidTxType_to_string(value))

validate_and_set_from_user_id(rec, value) ==
    LET p == parse_u64(value)
    IN IF p.ok THEN Set([rec EXCEPT !.from_user_id = p.val])
       ELSE Reject(rec, value, <<"FROM_USER_ID is not a number">>)

validate_and_set_to_user_id(rec, value) ==
    LET p == parse_u64(value)
    IN IF p.ok THEN Set([rec EXCEPT !.to_user_id = p.val])
       ELSE Reject(rec, value, <<"TO_USER_ID is not a number">>)

validate_and_set_amount(rec, value) ==
    LET p == parse_u64(value)
    IN IF p.ok THEN Set([rec EXCEPT !.amount = p.val])
       ELSE Reject(rec, value, <<"AMOUNT is not a number">>)

validate_and_set_timestamp(rec, value) ==
    LET p == parse_u64(value)
    IN IF p.ok THEN Set([rec EXCEPT !.timestamp = p.val])
       ELSE Reject(rec, value, <<"TIMESTAMP is not a number">>)

\* A faulty variant of validate_and_set_status that keeps a status set
\* before (the default, Success, counts as not set).
validate_and_set_status_keeping(rec, value) ==
    LET p == Status_try_from_str(value)
    IN IF ~p.ok THEN Reject(rec, value, InvalidStatus_to_string(value))
       ELSE IF rec.status # "Success" THEN Set(rec)
       ELSE Set([rec EXCEPT !.status = p.val])

validate_and_set_status(rec, value) ==
    LET p == Status_try_from_str(value)
    IN IF p.ok THEN Set([rec EXCEPT !.status = p.val])
       ELSE Reject(rec, value, InvalidStatus_to_string(value))

\* `value[1..value.len() - 1]` panics when value is the single character `"`
\* (the slice would start at 1 and end at 0).
validate_and_set_description(rec, value) ==
    IF ~StartsWith(value, QUOTE) \/ ~EndsWith(value, QUOTE)
    THEN Reject(rec, value, <<"DESCRIPTION must start and end with symbol \"">>)
    ELSE IF Len(value) < 2 THEN Panic(rec)
    ELSE Set([rec EXCEPT !.description = SubSeq(value, 2, Len(value) - 1)])

validate_and_set_value_by_key(rec, key, value) ==
    CASE key = "TxId" -> validate_and_set_tx_id(rec, value)
      [] key = "TxType" -> validate_and_set_tx_type(rec, value)
      [] key = "FromUserId" -> validate_and_set_from_user_id(rec, value)
      [] key = "ToUserId" -> validate_and_set_to_user_id(rec, value)
      [] key = "Amount" -> validate_and_set_amount(rec, value)
      [] key = "Timestamp" -> validate_and_set_timestamp(rec, value)
      [] key = "Status" -> validate_and_set_status(rec, value)
      [] key = "Description" -> validate_and_set_description(rec, value)

----------------------------------------------------------------------------
(* Writers of one record *)

Line(key, value) == RecordKey_to_string(key) \o <<":", " ">> \o value \o <<NL>>

\* Record::to_text: the eight `KEY: value` lines, each ended by a newline.
to_text(rec) ==
    Line("TxId", uint_to_string(rec.tx_id))
    \o Line("TxType", TxType_to_string(rec.tx_type))
    \o Line("FromUserId", uint_to_string(rec.from_user_id))
    \o Line("ToUserId", uint_to_string(rec.to_user_id))
    \o Line("Amount", uint_to_string(rec.amount))
    \o Line("Timestamp", uint_to_string(rec.timestamp))
    \o Line("Status", Status_to_string(rec.status))
    \o Line("Description", <<QUOTE>> \o rec.description \o <<QUOTE>>)

\* Record::to_csv.
to_csv(rec) ==
    uint_to_string(rec.tx_id) \o <<",">>
    \o TxType_to_string(rec.tx_type) \o <<",">>
    \o uint_to_string(rec.from_user_id) \o <<",">>
    \o uint_to_string(rec.to_user_id) \o <<",">>
    \o uint_to_string(rec.amount) \o <<",">>
    \o uint_to_string(rec.timestamp) \o <<",">>
    \o Status_to_string(rec.status) \o <<",">>
    \o <<QUOTE>> \o rec.description \o <<QUOTE>> \o <<NL>>

BINARY_MAGIC == <<89, 80, 66, 78>>
BINARY_MIN_RECORD_SIZE == 46

\* A faulty variant of to_bin that counts the characters of the description
\* instead of its bytes.
to_bin_counting_chars(rec) ==
    LET description_len == u32_add(U32OfNat(Len(rec.description)), U32Of(2))
        record_size == u32_add(U32Of(BINARY_MIN_RECORD_SIZE), description_len)
    IN BINARY_MAGIC
       \o to_be_bytes(record_size)
       \o to_be_bytes(rec.tx_id)
       \o <<TxType_as_u8(rec.tx_type)>>
       \o to_be_bytes(rec.from_user_id)
       \o to_be_bytes(rec.to_user_id)
       \o to_be_bytes(rec.amount)
       \o to_be_bytes(rec.timestamp)
       \o <<Status_as_u8(rec.status)>>
       \o to_be_bytes(description_len)
       \o as_bytes(<<QUOTE>> \o rec.description \o <<QUOTE>>)

\* Record::to_bin.
to_bin(rec) ==
    LET description_len == u32_add(U32OfNat(str_len(rec.description)), U32Of(2))
        record_size == u32_add(U32Of(BINARY_MIN_RECORD_SIZE), description_len)
    IN BINARY_MAGIC
       \o to_be_bytes(record_size)
       \o to_be_bytes(rec.tx_id)
       \o <<TxType_as_u8(rec.tx_type)>>
       \o to_be_bytes(rec.from_user_id)
       \o to_be_bytes(rec.to_user_id)
       \o to_be_bytes(rec.amount)
       \o to_be_bytes(rec.timestamp)
       \o <<Status_as_u8(rec.status)>>
       \o to_be_bytes(description_len)
       \o as_bytes(<<QUOTE>> \o rec.description \o <<QUOTE>>)

\* YPBank::prepare_header: the canonical keys joined by ",".
RECURSIVE join_keys(_)
join_keys(keys) ==
    IF Len(keys) = 1 THEN RecordKey_to_string(keys[1])
    ELSE RecordKey_to_string(keys[1]) \o <<",">> \o join_keys(Tail(keys))

prepare_header == join_keys(EXPECTED_KEYS)

----------------------------------------------------------------------------
(* Reading primitives *)

\* BufRead::read_line at offset p of s: the line up to and including the
\* next newline (or up to the end of the source), the number of elements
\* consumed, and whether the bytes decode as UTF-8.
read_line(s, p) ==
    LET nl == IndexFrom(s, NL, p + 1)
        end == IF nl = 0 THEN Len(s) ELSE nl
        line == SubSeq(s, p + 1, end)
    IN [line |-> line, n |-> end - p,
        ok |-> \A i \in 1..Len(line) : line[i] # BadByte]

\* A faulty variant of truncate_newline that leaves the line as read.
keep_newline(line) == line

\* The line without its terminating newline.
truncate_newline(line) ==
    IF EndsWith(line, NL) THEN SubSeq(line, 1, Len(line) - 1) ELSE line

\* str::split_once(' ').
split_once(line) ==
    LET i == IndexFrom(line, " ", 1)
    IN IF i = 0 THEN [found |-> FALSE, key |-> <<>>, value |-> <<>>]
       ELSE [found |-> TRUE, key |-> SubSeq(line, 1, i - 1),
             value |-> SubSeq(line, i + 1, Len(line))]

\* str::splitn(n, ','): at most n parts, the last one holding the rest.
RECURSIVE splitn(_, _)
splitn(n, line) ==
    LET i == IndexFrom(line, ",", 1)
    IN IF n <= 1 \/ i = 0 THEN <<line>>
       ELSE <<SubSeq(line, 1, i - 1)>> \o splitn(n - 1, SubSeq(line, i + 1, Len(line)))

\* Read::read_exact of n bytes at offset p: Err(UnexpectedEof) when fewer
\* than n bytes are left.
read_exact(s, p, n) ==
    IF Len(s) - p < n THEN [ok |-> FALSE, bytes |-> <<>>]
    ELSE [ok |-> TRUE, bytes |-> SubSeq(s, p + 1, p + n)]

----------------------------------------------------------------------------
(* The result of a read operation *)

NoResult == [kind |-> "None", records |-> <<>>, perr |-> NoParseError, err |-> NoReadError]

\* Ok(YPBank { records }).
Ok(recs) == [kind |-> "Ok", records |-> recs, perr |-> NoParseError, err |-> NoReadError]

\* Record::from_* returned Err(e) and `?` converted it into a ReadError.
ErrParse(e) ==
    [kind |-> "Err", records |-> <<>>, perr |-> e, err |-> ReadError_from_parse(e)]

\* YPBank::validate_header: Err(ReadError::InvalidFormat("invalid header structure")).
ErrHeader ==
    [kind |-> "Err", records |-> <<>>, perr |-> NoParseError,
     err |-> ReadError("InvalidFormat", <<"invalid header structure">>)]

\* An std::io::Error met by the read operation itself (not inside Record::from_*).
ErrIo(message) ==
    [kind |-> "Err", records |-> <<>>, perr |-> NoParseError, err |-> ReadError_from_io(message)]

\* The thread panicked: no Result is returned.
Panicked == [kind |-> "Panic", records |-> <<>>, perr |-> NoParseError, err |-> NoReadError]

\* The comparer has not run.
NoOutcome == [kind |-> "None", number |-> 0, len1 |-> 0, len2 |-> 0]

NoComparison == data1 = <<>> /\ data2 = <<>> /\ idx = 0 /\ outcome = NoOutcome

\* No single call is being made.
NoArg == [fn |-> "None"]
NoRet == [kind |-> "None"]
NoCall == arg = NoArg /\ ret = NoRet

----------------------------------------------------------------------------
(* Text reader *)

\* A faulty variant of from_text_line that takes a comment for a
\* `KEY: value` line.
from_text_line_no_comments(rec, raw) ==
    LET line == truncate_newline(raw)
        kv == split_once(line)
        name == SubSeq(kv.key, 1, Len(kv.key) - 1)
        k == RecordKey_try_from(name)
        v == validate_and_set_value_by_key(rec, k.key, kv.value)
    IN IF ~kv.found
       THEN [kind |-> "Err", rec |-> rec, key |-> "",
             err |-> UnexpectedError(<<"Could not parse string by space delimiter: ">> \o line)]
       ELSE IF ~EndsWith(kv.key, ":")
       THEN [kind |-> "Err", rec |-> rec, key |-> "", err |-> ColonNotFound(kv.key)]
       ELSE IF ~k.ok
       THEN [kind |-> "Err", rec |-> rec, key |-> "", err |-> InvalidKey(name)]
       ELSE IF v.kind = "Err"
       THEN [kind |-> "Err", rec |-> rec, key |-> "", err |-> InvalidValueError(v.err)]
       ELSE IF v.kind = "Panic"
       THEN [kind |-> "Panic", rec |-> rec, key |-> "", err |-> NoParseError]
       ELSE [kind |-> "Set", rec |-> v.rec, key |-> k.key, err |-> NoParseError]

\* Record::from_text, one line that is neither the end of the stream nor a
\* blank line: a comment is skipped, a `KEY: value` line is validated and
\* stored, anything else is an error.
from_text_line(rec, raw) ==
    LET line == truncate_newline(raw)
        kv == split_once(line)
        name == SubSeq(kv.key, 1, Len(kv.key) - 1)
        k == RecordKey_try_from(name)
        v == validate_and_set_value_by_key(rec, k.key, kv.value)
    IN IF StartsWith(line, "#")
       THEN [kind |-> "Skip", rec |-> rec, key |-> "", err |-> NoParseError]
       ELSE IF ~kv.found
       THEN [kind |-> "Err", rec |-> rec, key |-> "",
             err |-> UnexpectedError(<<"Could not parse string by space delimiter: ">> \o line)]
       ELSE IF ~EndsWith(kv.key, ":")
       THEN [kind |-> "Err", rec |-> rec, key |-> "", err |-> ColonNotFound(kv.key)]
       ELSE IF ~k.ok
       THEN [kind |-> "Err", rec |-> rec, key |-> "", err |-> InvalidKey(name)]
       ELSE IF v.kind = "Err"
       THEN [kind |-> "Err", rec |-> rec, key |-> "", err |-> InvalidValueError(v.err)]
       ELSE IF v.kind = "Panic"
       THEN [kind |-> "Panic", rec |-> rec, key |-> "", err |-> NoParseError]
       ELSE [kind |-> "Set", rec |-> v.rec, key |-> k.key, err |-> NoParseError]

\* A faulty variant of remove_key that leaves the map as it is.
remove_nothing(keys, key) == keys

\* `expected_keys.remove(&key)`.
remove_key(keys, key) == keys \ {key}

\* `expected_keys.iter().find(|(_, val)| !*val)`: every entry left in the
\* map holds `false`, so the key found is the first one in the map's
\* iteration order, which std's randomly seeded HashMap does not fix.
find_missing(keys) == keys

\* YPBank::read_from_text: the head of the `while` loop.
read_from_text ==
    /\ pc = "text_loop"
    /\ IF pos = Len(src)
       THEN /\ pc' = "done"
            /\ result' = Ok(records)
            /\ UNCHANGED <<cur, expected_keys>>
       ELSE /\ pc' = "from_text"
            /\ cur' = Record_default
            /\ expected_keys' = KeySet
            /\ UNCHANGED result
    /\ mark' = pos
    /\ UNCHANGED <<call_vars, comparer_vars, input, fmt, R, wi, out, src, pos, records, values, fi>>

\* Record::from_text: one iteration of its `loop`, and what follows the
\* loop when the iteration breaks out of it.
from_text ==
    /\ pc = "from_text"
    /\ LET rl == read_line(src, pos)
           o == from_text_line(cur, rl.line)
       IN /\ pos' = pos + rl.n
          /\ IF ~rl.ok
             THEN /\ pc' = "done"
                  /\ result' = ErrParse(UnexpectedError(InvalidUtf8Message))
                  /\ UNCHANGED <<records, cur, expected_keys>>
             ELSE IF rl.n = 0 \/ rl.line = <<NL>>
             THEN IF find_missing(expected_keys) # {}
                  THEN /\ \E key \in find_missing(expected_keys) :
                            result' = ErrParse(MissingKey(RecordKey_to_string(key)))
                       /\ pc' = "done"
                       /\ UNCHANGED <<records, cur, expected_keys>>
                  ELSE /\ records' = Append(records, cur)
                       /\ pc' = "text_loop"
                       /\ UNCHANGED <<result, cur, expected_keys>>
             ELSE IF o.kind = "Skip"
             THEN UNCHANGED <<pc, result, records, cur, expected_keys>>
             ELSE IF o.kind = "Err"
             THEN /\ pc' = "done"
                  /\ result' = ErrParse(o.err)
                  /\ UNCHANGED <<records, cur, expected_keys>>
             ELSE IF o.kind = "Panic"
             THEN /\ pc' = "done"
                  /\ result' = Panicked
                  /\ UNCHANGED <<records, cur, expected_keys>>
             ELSE /\ cur' = o.rec
                  /\ expected_keys' = remove_key(expected_keys, o.key)
                  /\ UNCHANGED <<pc, result, records>>
    /\ UNCHANGED <<mark, call_vars, comparer_vars, input, fmt, R, wi, out, src, values, fi>>

----------------------------------------------------------------------------
(* CSV reader *)

\* A faulty variant of validate_header that accepts every first line.
accept_any_header(header) == TRUE

\* YPBank::validate_header.
validate_header(header) == header = prepare_header

\* YPBank::read_from_csv up to its `loop`: the header line.
read_from_csv_header ==
    /\ pc = "csv_header"
    /\ LET rl == read_line(src, pos)
           header == truncate_newline(rl.line)
       IN /\ pos' = pos + rl.n
          /\ IF ~rl.ok
             THEN pc' = "done" /\ result' = ErrIo(InvalidUtf8Message)
             ELSE IF ~validate_header(header)
             THEN pc' = "done" /\ result' = ErrHeader
             ELSE pc' = "csv_loop" /\ UNCHANGED result
    /\ UNCHANGED <<mark, call_vars, comparer_vars, input, fmt, R, wi, out, src, records, cur, expected_keys, values, fi>>

\* str::trim_end_matches(['\r', '\n']): the line without the carriage
\* returns and newlines at its end.
RECURSIVE trim_end_matches(_)
trim_end_matches(line) ==
    IF EndsWith(line, NL) \/ EndsWith(line, "\r")
    THEN trim_end_matches(SubSeq(line, 1, Len(line) - 1))
    ELSE line

\* YPBankCsv::validate_header (csv_format.rs).
YPBankCsv_validate_header(header) == header = prepare_header

\* YPBankCsv::read_from (csv_format.rs) up to its `loop`: the header line.
\* The loop that follows is the one of YPBank::read_from_csv.
YPBankCsv_read_from_header ==
    /\ pc = "csv_format_header"
    /\ LET rl == read_line(src, pos)
           header == trim_end_matches(rl.line)
       IN /\ pos' = pos + rl.n
          /\ IF ~rl.ok
             THEN pc' = "done" /\ result' = ErrIo(InvalidUtf8Message)
             ELSE IF ~YPBankCsv_validate_header(header)
             THEN /\ pc' = "done"
                  /\ result' = ErrParse(UnexpectedError(<<"invalid header structure">>))
             ELSE pc' = "csv_loop" /\ UNCHANGED result
    /\ UNCHANGED <<mark, call_vars, comparer_vars, input, fmt, R, wi, out, src, records, cur,
                   expected_keys, values, fi>>

\* A faulty variant of read_from_csv that calls Record::from_csv without
\* looking whether anything is left to read.
read_from_csv_unguarded ==
    /\ pc = "csv_loop"
    /\ pc' = "from_csv"
    /\ mark' = pos
    /\ UNCHANGED <<call_vars, comparer_vars, input, fmt, R, wi, out, src, pos, records, cur,
                   expected_keys, values, fi, result>>

\* YPBank::read_from_csv: the head of its `loop`.
read_from_csv ==
    /\ pc = "csv_loop"
    /\ IF pos = Len(src)
       THEN pc' = "done" /\ result' = Ok(records)
       ELSE pc' = "from_csv" /\ UNCHANGED result
    /\ mark' = pos
    /\ UNCHANGED <<call_vars, comparer_vars, input, fmt, R, wi, out, src, pos, records, cur, expected_keys, values, fi>>

\* A faulty variant of csv_values that splits at every comma.
csv_values_unbounded(line) == splitn(Len(line) + 1, line)

\* The parts of one CSV line.
csv_values(line) == splitn(Len(EXPECTED_KEYS), line)

\* Record::from_csv up to the `for` loop: read one line, split it, check
\* the number of parts.
from_csv ==
    /\ pc = "from_csv"
    /\ LET rl == read_line(src, pos)
           parts == csv_values(truncate_newline(rl.line))
       IN /\ pos' = pos + rl.n
          /\ IF ~rl.ok
             THEN /\ pc' = "done"
                  /\ result' = ErrParse(UnexpectedError(InvalidUtf8Message))
                  /\ UNCHANGED <<cur, values, fi>>
             ELSE IF rl.n = 0
             THEN /\ pc' = "done"
                  /\ result' = ErrParse(UnexpectedError(<<"EOF is reached">>))
                  /\ UNCHANGED <<cur, values, fi>>
             ELSE IF Len(EXPECTED_KEYS) # Len(parts)
             THEN /\ pc' = "done"
                  /\ result' = ErrParse(InvalidCountOfColumns(Len(parts)))
                  /\ UNCHANGED <<cur, values, fi>>
             ELSE /\ pc' = "csv_fields"
                  /\ cur' = Record_default
                  /\ values' = parts
                  /\ fi' = 0
                  /\ UNCHANGED result
    /\ UNCHANGED <<mark, call_vars, comparer_vars, input, fmt, R, wi, out, src, records, expected_keys>>

\* Record::from_csv: one iteration of the `for` loop over the keys zipped
\* with the parts; after the last one the record is returned and pushed.
from_csv_field ==
    /\ pc = "csv_fields"
    /\ LET v == validate_and_set_value_by_key(cur, EXPECTED_KEYS[fi + 1], values[fi + 1])
       IN IF v.kind = "Err"
          THEN /\ pc' = "done"
               /\ result' = ErrParse(InvalidValueError(v.err))
               /\ UNCHANGED <<cur, fi, records>>
          ELSE IF v.kind = "Panic"
          THEN /\ pc' = "done"
               /\ result' = Panicked
               /\ UNCHANGED <<cur, fi, records>>
          ELSE IF fi + 1 < Len(EXPECTED_KEYS)
          THEN /\ cur' = v.rec
               /\ fi' = fi + 1
               /\ UNCHANGED <<pc, result, records>>
          ELSE /\ cur' = v.rec
               /\ fi' = fi + 1
               /\ records' = Append(records, v.rec)
               /\ pc' = "csv_loop"
               /\ UNCHANGED result
    /\ UNCHANGED <<mark, call_vars, comparer_vars, input, fmt, R, wi, out, src, pos, expected_keys, values>>

----------------------------------------------------------------------------
(* Binary reader *)

\* String::from_utf8_lossy: every byte that cannot be decoded becomes U+FFFD.
RECURSIVE from_utf8_lossy(_)
from_utf8_lossy(bs) ==
    IF bs = <<>> THEN <<>>
    ELSE IF bs[1] < 128 THEN <<AsciiChars[bs[1] + 1]>> \o from_utf8_lossy(Tail(bs))
    ELSE IF bs[1] \in 194..223 /\ Len(bs) >= 2 /\ bs[2] \in 128..191
    THEN <<IF bs[1] = 195 /\ bs[2] = 169 THEN EAcute ELSE OtherTwoByte>>
         \o from_utf8_lossy(SubSeq(bs, 3, Len(bs)))
    ELSE <<"<U+FFFD>">> \o from_utf8_lossy(Tail(bs))

\* A faulty variant of BinEof that reports the end of the source as a wrong
\* magic.
BinEof_as_magic == ErrParse(InvalidMagicNumber)

\* The io::Error of a read_exact that met the end of the source, as
\* Record::from_bin returns it.
BinEof == ErrParse(UnexpectedError(UnexpectedEofMessage))

\* YPBank::read_from_bin: the head of the `while` loop.
read_from_bin ==
    /\ pc = "bin_loop"
    /\ IF pos = Len(src)
       THEN pc' = "done" /\ result' = Ok(records) /\ UNCHANGED cur
       ELSE pc' = "bin_magic" /\ cur' = Record_default /\ UNCHANGED result
    /\ mark' = pos
    /\ UNCHANGED <<call_vars, comparer_vars, input, fmt, R, wi, out, src, pos, records, expected_keys, values, fi>>

\* A faulty variant of magic_mismatch that looks at the first byte only.
magic_first_byte_mismatch(magic) == magic[1] # BINARY_MAGIC[1]

\* `magic != Self::BINARY_MAGIC`.
magic_mismatch(magic) == magic # BINARY_MAGIC

\* Record::from_bin: the magic number.
from_bin_magic ==
    /\ pc = "bin_magic"
    /\ LET magic == read_exact(src, pos, 4)
       IN IF ~magic.ok
          THEN pc' = "done" /\ result' = BinEof /\ pos' = Len(src)
          ELSE IF magic_mismatch(magic.bytes)
          THEN pc' = "done" /\ result' = ErrParse(InvalidMagicNumber) /\ pos' = pos + 4
          ELSE pc' = "bin_size" /\ pos' = pos + 4 /\ UNCHANGED result
    /\ UNCHANGED <<mark, call_vars, comparer_vars, input, fmt, R, wi, out, src, records, cur, expected_keys, values, fi>>

\* A faulty variant of record_size_too_small with `<=` for `<`.
record_size_not_above_min(record_size) ==
    ~limbs_lt(U32Of(BINARY_MIN_RECORD_SIZE), record_size)

\* `record_size < Self::BINARY_MIN_RECORD_SIZE`.
record_size_too_small(record_size) == limbs_lt(record_size, U32Of(BINARY_MIN_RECORD_SIZE))

\* Record::from_bin: the record_size field.
from_bin_record_size ==
    /\ pc = "bin_size"
    /\ LET raw == read_exact(src, pos, 4)
           record_size == from_be_bytes(raw.bytes)
       IN IF ~raw.ok
          THEN pc' = "done" /\ result' = BinEof /\ pos' = Len(src)
          ELSE IF record_size_too_small(record_size)
          THEN pc' = "done" /\ result' = ErrParse(InvalidRecordSize(record_size)) /\ pos' = pos + 4
          ELSE pc' = "bin_fields" /\ pos' = pos + 4 /\ UNCHANGED result
    /\ UNCHANGED <<mark, call_vars, comparer_vars, input, fmt, R, wi, out, src, records, cur, expected_keys, values, fi>>

\* A faulty variant of bin_fixed_fields that reads the 42 bytes of the
\* fields before it looks at any of them.
bin_fixed_fields_read_first(rec, s, p) ==
    LET avail == Len(s) - p
        u64_at(off) == from_be_bytes(SubSeq(s, p + off + 1, p + off + 8))
        tx_type_raw == s[p + 9]
        tx_type == TxType_try_from_u8(tx_type_raw)
        status_raw == s[p + 42]
        status == Status_try_from_u8(status_raw)
    IN IF avail < 42
       THEN [kind |-> "Eof", rec |-> rec, pos |-> Len(s), err |-> NoParseError]
       ELSE IF ~tx_type.ok
       THEN [kind |-> "Err", rec |-> rec, pos |-> p + 42,
             err |-> InvalidValueError(InvalidValue(
                        uint_to_string(U8Of(tx_type_raw)),
                        InvalidTxType_to_string(uint_to_string(U8Of(tx_type_raw)))))]
       ELSE IF ~status.ok
       THEN [kind |-> "Err", rec |-> rec, pos |-> p + 42,
             err |-> InvalidValueError(InvalidValue(
                        uint_to_string(U8Of(status_raw)),
                        InvalidStatus_to_string(uint_to_string(U8Of(status_raw)))))]
       ELSE [kind |-> "Ok", pos |-> p + 42, err |-> NoParseError,
             rec |-> [rec EXCEPT !.tx_id = u64_at(0), !.tx_type = tx_type.val,
                                 !.from_user_id = u64_at(9), !.to_user_id = u64_at(17),
                                 !.amount = u64_at(25), !.timestamp = u64_at(33),
                                 !.status = status.val]]

\* Record::from_bin from tx_id to status, at offset p of s: the fields are
\* read in layout order and the first failure is returned, with the offset
\* reached.
bin_fixed_fields(rec, s, p) ==
    LET avail == Len(s) - p
        u64_at(off) == from_be_bytes(SubSeq(s, p + off + 1, p + off + 8))
        tx_type_raw == s[p + 9]
        tx_type == TxType_try_from_u8(tx_type_raw)
        status_raw == s[p + 42]
        status == Status_try_from_u8(status_raw)
        eof == [kind |-> "Eof", rec |-> rec, pos |-> Len(s), err |-> NoParseError]
    IN IF avail < 8 THEN eof
       ELSE IF avail < 9 THEN eof
       ELSE IF ~tx_type.ok
       THEN [kind |-> "Err", rec |-> rec, pos |-> p + 9,
             err |-> InvalidValueError(InvalidValue(
                        uint_to_string(U8Of(tx_type_raw)),
                        InvalidTxType_to_string(uint_to_string(U8Of(tx_type_raw)))))]
       ELSE IF avail < 41 THEN eof
       ELSE IF avail < 42 THEN eof
       ELSE IF ~status.ok
       THEN [kind |-> "Err", rec |-> rec, pos |-> p + 42,
             err |-> InvalidValueError(InvalidValue(
                        uint_to_string(U8Of(status_raw)),
                        InvalidStatus_to_string(uint_to_string(U8Of(status_raw)))))]
       ELSE [kind |-> "Ok", pos |-> p + 42, err |-> NoParseError,
             rec |-> [rec EXCEPT !.tx_id = u64_at(0), !.tx_type = tx_type.val,
                                 !.from_user_id = u64_at(9), !.to_user_id = u64_at(17),
                                 !.amount = u64_at(25), !.timestamp = u64_at(33),
                                 !.status = status.val]]

\* Record::from_bin: the fixed-width fields.
from_bin_fields ==
    /\ pc = "bin_fields"
    /\ LET o == bin_fixed_fields(cur, src, pos)
       IN /\ pos' = o.pos
          /\ IF o.kind = "Eof"
             THEN pc' = "done" /\ result' = BinEof /\ UNCHANGED cur
             ELSE IF o.kind = "Err"
             THEN pc' = "done" /\ result' = ErrParse(o.err) /\ UNCHANGED cur
             ELSE pc' = "bin_desc" /\ cur' = o.rec /\ UNCHANGED result
    /\ UNCHANGED <<mark, call_vars, comparer_vars, input, fmt, R, wi, out, src, records, expected_keys, values, fi>>

\* A faulty variant of bin_description that leaves the source one byte past
\* the description.
bin_description_one_past(rec, s, p) ==
    LET raw == read_exact(s, p, 4)
        desc_len == from_be_bytes(raw.bytes)
        n == desc_len[2]
        buffer == read_exact(s, p + 4, n)
        text == from_utf8(buffer.bytes)
        v == validate_and_set_description(rec, text.s)
        eof == [kind |-> "Eof", rec |-> rec, pos |-> Len(s), err |-> NoParseError]
    IN IF ~raw.ok THEN eof
       ELSE IF IsZero(desc_len)
       THEN [kind |-> "Ok", rec |-> rec, pos |-> p + 4, err |-> NoParseError]
       ELSE IF desc_len[1] > 0 \/ ~buffer.ok THEN eof
       ELSE IF ~text.ok
       THEN [kind |-> "Err", rec |-> rec, pos |-> p + 4 + n,
             err |-> InvalidValueError(InvalidValue(from_utf8_lossy(buffer.bytes),
                                                    <<"invalid utf-8 sequence">>))]
       ELSE IF v.kind = "Err"
       THEN [kind |-> "Err", rec |-> rec, pos |-> p + 4 + n, err |-> InvalidValueError(v.err)]
       ELSE IF v.kind = "Panic"
       THEN [kind |-> "Panic", rec |-> rec, pos |-> p + 4 + n, err |-> NoParseError]
       ELSE [kind |-> "Ok", rec |-> v.rec, pos |-> IF p + 5 + n <= Len(s) THEN p + 5 + n ELSE p + 4 + n,
             err |-> NoParseError]

\* A faulty variant of bin_description that hands the description to the
\* validation also when desc_len is 0.
bin_description_always_validated(rec, s, p) ==
    LET raw == read_exact(s, p, 4)
        desc_len == from_be_bytes(raw.bytes)
        n == desc_len[2]
        buffer == read_exact(s, p + 4, n)
        text == from_utf8(buffer.bytes)
        v == validate_and_set_description(rec, text.s)
        eof == [kind |-> "Eof", rec |-> rec, pos |-> Len(s), err |-> NoParseError]
    IN IF ~raw.ok THEN eof
       ELSE IF desc_len[1] > 0 \/ ~buffer.ok THEN eof
       ELSE IF ~text.ok
       THEN [kind |-> "Err", rec |-> rec, pos |-> p + 4 + n,
             err |-> InvalidValueError(InvalidValue(from_utf8_lossy(buffer.bytes),
                                                    <<"invalid utf-8 sequence">>))]
       ELSE IF v.kind = "Err"
       THEN [kind |-> "Err", rec |-> rec, pos |-> p + 4 + n, err |-> InvalidValueError(v.err)]
       ELSE IF v.kind = "Panic"
       THEN [kind |-> "Panic", rec |-> rec, pos |-> p + 4 + n, err |-> NoParseError]
       ELSE [kind |-> "Ok", rec |-> v.rec, pos |-> p + 4 + n, err |-> NoParseError]

\* Record::from_bin from desc_len to the end, at offset p of s.  The Display
\* of a FromUtf8Error is kept as one token, without the position it names.  A
\* desc_len beyond the bytes that are left (any value of 2^16 or more is, in this
\* model) ends the read_exact with UnexpectedEof.
bin_description(rec, s, p) ==
    LET raw == read_exact(s, p, 4)
        desc_len == from_be_bytes(raw.bytes)
        n == desc_len[2]
        buffer == read_exact(s, p + 4, n)
        text == from_utf8(buffer.bytes)
        v == validate_and_set_description(rec, text.s)
        eof == [kind |-> "Eof", rec |-> rec, pos |-> Len(s), err |-> NoParseError]
    IN IF ~raw.ok THEN eof
       ELSE IF IsZero(desc_len)
       THEN [kind |-> "Ok", rec |-> rec, pos |-> p + 4, err |-> NoParseError]
       ELSE IF desc_len[1] > 0 \/ ~buffer.ok THEN eof
       ELSE IF ~text.ok
       THEN [kind |-> "Err", rec |-> rec, pos |-> p + 4 + n,
             err |-> InvalidValueError(InvalidValue(from_utf8_lossy(buffer.bytes),
                                                    <<"invalid utf-8 sequence">>))]
       ELSE IF v.kind = "Err"
       THEN [kind |-> "Err", rec |-> rec, pos |-> p + 4 + n, err |-> InvalidValueError(v.err)]
       ELSE IF v.kind = "Panic"
       THEN [kind |-> "Panic", rec |-> rec, pos |-> p + 4 + n, err |-> NoParseError]
       ELSE [kind |-> "Ok", rec |-> v.rec, pos |-> p + 4 + n, err |-> NoParseError]

\* Record::from_bin: the description, then the record is returned and pushed.
from_bin_description ==
    /\ pc = "bin_desc"
    /\ LET o == bin_description(cur, src, pos)
       IN /\ pos' = o.pos
          /\ IF o.kind = "Eof"
             THEN pc' = "done" /\ result' = BinEof /\ UNCHANGED <<cur, records>>
             ELSE IF o.kind = "Err"
             THEN pc' = "done" /\ result' = ErrParse(o.err) /\ UNCHANGED <<cur, records>>
             ELSE IF o.kind = "Panic"
             THEN pc' = "done" /\ result' = Panicked /\ UNCHANGED <<cur, records>>
             ELSE /\ pc' = "bin_loop"
                  /\ cur' = o.rec
                  /\ records' = Append(records, o.rec)
                  /\ UNCHANGED result
    /\ UNCHANGED <<mark, call_vars, comparer_vars, input, fmt, R, wi, out, src, expected_keys, values, fi>>

----------------------------------------------------------------------------
(* Writers *)

\* YPBank::write_to_text: one iteration of the `for` loop.
write_to_text ==
    /\ pc = "write" /\ fmt = "text" /\ wi < Len(R)
    /\ out' = out \o (IF wi > 0 THEN <<NL>> ELSE <<>>) \o to_text(R[wi + 1])
    /\ wi' = wi + 1
    /\ UNCHANGED <<mark, call_vars, comparer_vars, input, fmt, pc, R, src, pos, records, cur, expected_keys, values, fi, result>>

\* YPBank::write_to_csv: the header line.
write_to_csv_header ==
    /\ pc = "write_header" /\ fmt = "csv"
    /\ out' = out \o prepare_header \o <<NL>>
    /\ pc' = "write"
    /\ UNCHANGED <<mark, call_vars, comparer_vars, input, fmt, R, wi, src, pos, records, cur, expected_keys, values, fi, result>>

\* YPBank::write_to_csv: one iteration of the `for` loop.
write_to_csv ==
    /\ pc = "write" /\ fmt = "csv" /\ wi < Len(R)
    /\ out' = out \o to_csv(R[wi + 1])
    /\ wi' = wi + 1
    /\ UNCHANGED <<mark, call_vars, comparer_vars, input, fmt, pc, R, src, pos, records, cur, expected_keys, values, fi, result>>

\* A faulty variant of write_to_bin that puts each record before the
\* records already written.
write_to_bin_prepending ==
    /\ pc = "write" /\ fmt = "bin" /\ wi < Len(R)
    /\ out' = to_bin(R[wi + 1]) \o out
    /\ wi' = wi + 1
    /\ UNCHANGED <<mark, call_vars, comparer_vars, input, fmt, pc, R, src, pos, records, cur, expected_keys, values, fi, result>>

\* YPBank::write_to_bin: one iteration of the `for` loop.
write_to_bin ==
    /\ pc = "write" /\ fmt = "bin" /\ wi < Len(R)
    /\ out' = out \o to_bin(R[wi + 1])
    /\ wi' = wi + 1
    /\ UNCHANGED <<mark, call_vars, comparer_vars, input, fmt, pc, R, src, pos, records, cur, expected_keys, values, fi, result>>

\* The entry point of the reader of a format.
ReadStart(f) ==
    CASE f = "text" -> "text_loop"
      [] f = "csv" -> "csv_header"
      [] f = "bin" -> "bin_loop"

\* write_to_* returns Ok(()) once every record is written; the caller then
\* reads what the sink holds with the reader of the same format.
read_back ==
    /\ pc = "write" /\ wi = Len(R)
    /\ src' = out
    /\ pos' = 0
    /\ pc' = ReadStart(fmt)
    /\ UNCHANGED <<mark, call_vars, comparer_vars, input, fmt, R, wi, out, records, cur, expected_keys, values, fi, result>>

----------------------------------------------------------------------------
(* Next-state relations *)

NextText == read_from_text \/ from_text

NextCsv == read_from_csv_header \/ read_from_csv \/ from_csv \/ from_csv_field

NextBin ==
    \/ read_from_bin
    \/ from_bin_magic
    \/ from_bin_record_size
    \/ from_bin_fields
    \/ from_bin_description

NextWrite == write_to_text \/ write_to_csv_header \/ write_to_csv \/ write_to_bin \/ read_back

----------------------------------------------------------------------------
(* Write, then read back: the inputs are RecordSets *)

\* The largest number of records in a RecordSet.
MaxRecords == 2

Formats == {"text", "csv", "bin"}

\* Numeric field values: zeros, five distinct small values, and values that
\* fill the upper limbs, 2^64 - 1 among them.
NumericSamples ==
    { <<U64Zero, U64Zero, U64Zero, U64Zero, U64Zero>>,
      <<U64Of(1), U64Of(2), U64Of(3), U64Of(4), U64Of(5)>>,
      <<U64Max, <<0, 0, 1, 0>>, U64Of(10), <<1, 2, 3, 4>>, U64Of(256)>> }

\* Descriptions: empty, plain, with a space, a comma, a quote, a `#`, a
\* two-byte character, a newline inside, and a lone newline.
DescriptionSamples ==
    { <<>>,
      <<"a", " ", "b">>,
      <<"a", ",", "b">>,
      <<"a", QUOTE, "b">>,
      <<QUOTE>>,
      <<"#", ":", " ", EAcute>>,
      <<"a", NL, "b">>,
      <<NL>> }

SampleRecord(n, tx_type, status, description) ==
    Record_new(n[1], tx_type, n[2], n[3], n[4], n[5], status, description)

SampleRecords ==
    { SampleRecord(<<U64Of(1), U64Of(2), U64Of(3), U64Of(4), U64Of(5)>>, "Transfer", "Failure", d) :
        d \in DescriptionSamples }
    \cup
    { SampleRecord(n, "Deposit", "Pending", <<"a">>) : n \in NumericSamples }
    \cup
    { SampleRecord(<<U64Of(1), U64Of(2), U64Of(3), U64Of(4), U64Of(5)>>, t, s, <<"a">>) :
        <<t, s>> \in {<<"Deposit", "Success">>, <<"Withdrawal", "Failure">>, <<"Transfer", "Pending">>} }

RecordSets == UNION { [1..n -> SampleRecords] : n \in 0..MaxRecords }

InitRoundTrip ==
    /\ input = [kind |-> "roundtrip"]
    /\ fmt \in Formats
    /\ R \in RecordSets
    /\ pc = IF fmt = "csv" THEN "write_header" ELSE "write"
    /\ wi = 0
    /\ out = <<>>
    /\ src = <<>>
    /\ pos = 0
    /\ mark = 0
    /\ records = <<>>
    /\ cur = Record_default
    /\ expected_keys = KeySet
    /\ values = <<>>
    /\ fi = 0
    /\ result = NoResult
    /\ NoComparison
    /\ NoCall

NextRoundTrip == NextWrite \/ NextText \/ NextCsv \/ NextBin

SpecRoundTrip == InitRoundTrip /\ [][NextRoundTrip]_vars

----------------------------------------------------------------------------
(* Reading a crafted CSV source *)

\* The largest number of lines after the header line.
MaxLines == 2

RECURSIVE JoinLines(_)
JoinLines(lines) ==
    IF lines = <<>> THEN <<>>
    ELSE IF Len(lines) = 1 THEN lines[1]
    ELSE lines[1] \o <<NL>> \o JoinLines(Tail(lines))

\* The header line as the format's description spells it.
CanonicalHeader ==
    <<"T", "X", "_", "I", "D", ",", "T", "X", "_", "T", "Y", "P", "E", ",", "F", "R",
      "O", "M", "_", "U", "S", "E", "R", "_", "I", "D", ",", "T", "O", "_", "U", "S",
      "E", "R", "_", "I", "D", ",", "A", "M", "O", "U", "N", "T", ",", "T", "I", "M",
      "E", "S", "T", "A", "M", "P", ",", "S", "T", "A", "T", "U", "S", ",", "D", "E",
      "S", "C", "R", "I", "P", "T", "I", "O", "N">>

\* First lines: the header; the header without AMOUNT; with a leading comma;
\* with a carriage return or a space after it; an empty line; a line that is
\* not UTF-8.
HeaderSamples ==
    { CanonicalHeader,
      <<"T", "X", "_", "I", "D", ",", "T", "X", "_", "T", "Y", "P", "E", ",", "F", "R",
        "O", "M", "_", "U", "S", "E", "R", "_", "I", "D", ",", "T", "O", "_", "U", "S",
        "E", "R", "_", "I", "D", ",", "T", "I", "M", "E", "S", "T", "A", "M", "P", ",",
        "S", "T", "A", "T", "U", "S", ",", "D", "E", "S", "C", "R", "I", "P", "T", "I",
        "O", "N">>,
      <<",">> \o CanonicalHeader,
      CanonicalHeader \o <<"\r">>,
      CanonicalHeader \o <<" ">>,
      <<>>,
      <<BadByte>> }

\* Two lines that are records (the first with commas in its description).
CsvRecordLines ==
    { <<"1", ",", "D", "E", "P", "O", "S", "I", "T", ",", "0", ",", "5", "0", "1", ",", "5", "0", "0", "0", "0", ",", "7", ",", "S", "U", "C", "C", "E", "S", "S", ",", QUOTE, "x", ",", "y", ",", QUOTE>>,
      <<"1", "0", "0", "1", ",", "T", "R", "A", "N", "S", "F", "E", "R", ",", "2", ",", "3", ",", "4", ",", "5", ",", "F", "A", "I", "L", "U", "R", "E", ",", QUOTE, "a", QUOTE>> }

\* Lines with 7, 1, 1 (empty) and 2 parts, the last with a first part that is
\* no number.
CsvShortLines ==
    { <<"1", "0", "0", "1", ",", "D", "E", "P", "O", "S", "I", "T", ",", "0", ",", "5", "0", "1", ",", "5", "0", "0", "0", "0", ",", "S", "U", "C", "C", "E", "S", "S", ",", QUOTE, "x", QUOTE>>,
      <<"1", "0", "0", "1">>,
      <<>>,
      <<"A", "B", "C", ",", "D", "E", "P", "O", "S", "I", "T">> }

\* Lines of 8 parts with a part that its validator rejects: the first, the
\* seventh, the last (no quotes, and a comma in it).
CsvInvalidLines ==
    { <<"A", "B", "C", ",", "D", "E", "P", "O", "S", "I", "T", ",", "0", ",", "5", "0", "1", ",", "5", "0", "0", "0", "0", ",", "7", ",", "S", "U", "C", "C", "E", "S", "S", ",", QUOTE, "x", QUOTE>>,
      <<"1", ",", "D", "E", "P", "O", "S", "I", "T", ",", "0", ",", "5", "0", "1", ",", "5", "0", "0", "0", "0", ",", "7", ",", "D", "O", "N", "E", ",", QUOTE, "x", QUOTE>>,
      <<"1", ",", "D", "E", "P", "O", "S", "I", "T", ",", "0", ",", "5", "0", "1", ",", "5", "0", "0", "0", "0", ",", "7", ",", "S", "U", "C", "C", "E", "S", "S", ",", "x", ",", "y">> }

CsvLineSamples == CsvRecordLines \cup CsvShortLines \cup CsvInvalidLines \cup {<<BadByte>>}

InitCsv ==
    /\ \E header \in HeaderSamples, n \in 0..MaxLines, final_nl \in BOOLEAN :
         \E lines \in [1..n -> CsvLineSamples] :
            /\ input = [kind |-> "csv", header |-> header, lines |-> lines, final_nl |-> final_nl]
            /\ src = JoinLines(<<header>> \o lines) \o (IF final_nl THEN <<NL>> ELSE <<>>)
    /\ fmt = "csv"
    /\ pc = "csv_header"
    /\ R = <<>>
    /\ wi = 0
    /\ out = <<>>
    /\ pos = 0
    /\ mark = 0
    /\ records = <<>>
    /\ cur = Record_default
    /\ expected_keys = KeySet
    /\ values = <<>>
    /\ fi = 0
    /\ result = NoResult
    /\ NoComparison
    /\ NoCall

SpecCsv == InitCsv /\ [][NextCsv]_vars

----------------------------------------------------------------------------
(* Reading the first line of a CSV source with each implementation of the  *)
(* CSV read                                                                *)

\* The implementations: YPBank::read_from_csv (lib.rs), YPBankCsv::read_from
\* (csv_format.rs), and the body the derive macro generates, which is the
\* text of lib.rs.
CsvImplementations == {"lib.rs", "csv_format.rs", "parser_macro"}

\* First lines: those of HeaderSamples; the header with a ninth column, with
\* two carriage returns after it, with a carriage return before it; a
\* carriage return alone.
FirstLines ==
    HeaderSamples \cup
    { CanonicalHeader \o <<",", "X">>, CanonicalHeader \o <<"\r", "\r">>,
      <<"\r">> \o CanonicalHeader, <<"\r">> }

InitHeader ==
    /\ \E impl \in CsvImplementations, header \in FirstLines, n \in 0..1, final_nl \in BOOLEAN :
         \E lines \in [1..n -> CsvRecordLines] :
            /\ input = [kind |-> "header", impl |-> impl, header |-> header, lines |-> lines,
                        final_nl |-> final_nl]
            /\ src = JoinLines(<<header>> \o lines) \o (IF final_nl THEN <<NL>> ELSE <<>>)
            /\ pc = IF impl = "csv_format.rs" THEN "csv_format_header" ELSE "csv_header"
    /\ fmt = "csv"
    /\ R = <<>>
    /\ wi = 0
    /\ out = <<>>
    /\ pos = 0
    /\ mark = 0
    /\ records = <<>>
    /\ cur = Record_default
    /\ expected_keys = KeySet
    /\ values = <<>>
    /\ fi = 0
    /\ result = NoResult
    /\ NoComparison
    /\ NoCall

NextHeader == YPBankCsv_read_from_header \/ NextCsv

SpecHeader == InitHeader /\ [][NextHeader]_vars

----------------------------------------------------------------------------
(* Reading a crafted text source *)

\* The largest number of canonical keys left out of the block.
MaxMissing == 2

Reverse(s) == [i \in 1..Len(s) |-> s[Len(s) + 1 - i]]

\* A valid `KEY: value` line for each key.
ValidLine(key) ==
    CASE key = "TxId" -> <<"T", "X", "_", "I", "D", ":", " ", "1", "0", "0", "1">>
      [] key = "TxType" -> <<"T", "X", "_", "T", "Y", "P", "E", ":", " ", "T", "R", "A", "N", "S", "F", "E", "R">>
      [] key = "FromUserId" -> <<"F", "R", "O", "M", "_", "U", "S", "E", "R", "_", "I", "D", ":", " ", "2">>
      [] key = "ToUserId" -> <<"T", "O", "_", "U", "S", "E", "R", "_", "I", "D", ":", " ", "3">>
      [] key = "Amount" -> <<"A", "M", "O", "U", "N", "T", ":", " ", "4">>
      [] key = "Timestamp" -> <<"T", "I", "M", "E", "S", "T", "A", "M", "P", ":", " ", "5">>
      [] key = "Status" -> <<"S", "T", "A", "T", "U", "S", ":", " ", "F", "A", "I", "L", "U", "R", "E">>
      [] key = "Description" -> <<"D", "E", "S", "C", "R", "I", "P", "T", "I", "O", "N", ":", " ", QUOTE, "a", " ", "b", QUOTE>>

\* The record those lines describe.
ValidLinesRecord ==
    Record_new(U64Of(1001), "Transfer", U64Of(2), U64Of(3), U64Of(4), U64Of(5), "Failure",
               <<"a", " ", "b">>)

NoLine == <<"<none>">>

CommentLine == <<"#", " ", "c">>
\* A valid line that the TX_ID line of the block, when there is one, overrides.
EarlierTxIdLine == <<"T", "X", "_", "I", "D", ":", " ", "7">>
\* A line whose value its validator rejects.
BadTxIdLine == <<"T", "X", "_", "I", "D", ":", " ", "A", "B", "C">>
BadAmountLine == <<"A", "M", "O", "U", "N", "T", ":", " ", "-", "1">>

\* Lines `KEY: value` whose KEY is no canonical key: an unknown name, a
\* canonical name in lower case, an empty name, a name after a `#`.
UnknownKeyLine == <<"U", "N", "E", "X", "P", "E", "C", "T", "E", "D", "_", "K", "E", "Y", ":", " ", "1">>
LowerCaseKeyLine == <<"t", "x", "_", "i", "d", ":", " ", "1">>
EmptyKeyLine == <<":", " ", "1">>
HashKeyLine == <<"#", "K", "E", "Y", ":", " ", "1">>

\* A line whose first word does not end with a colon, and one with no space.
NoColonLine == <<"T", "O", "_", "U", "S", "E", "R", "_", "I", "D", " ", "2">>
NoSpaceLine == <<"c", "o", "m", "m", "e", "n", "t">>

\* What may stand before the canonical lines of the block, and after them.
FirstLineSamples == {NoLine, CommentLine, EarlierTxIdLine, BadTxIdLine}
LastLineSamples ==
    { NoLine, CommentLine, UnknownKeyLine, LowerCaseKeyLine, EmptyKeyLine, HashKeyLine,
      NoColonLine, NoSpaceLine, BadAmountLine, <<BadByte>> }

KeyLines(keys, missing) ==
    LET kept == SelectSeq(keys, LAMBDA k : k \notin missing)
    IN [i \in 1..Len(kept) |-> ValidLine(kept[i])]

BlockLines(first, keys, missing, last) ==
    (IF first = NoLine THEN <<>> ELSE <<first>>)
    \o KeyLines(keys, missing)
    \o (IF last = NoLine THEN <<>> ELSE <<last>>)

InitText ==
    /\ \E first \in FirstLineSamples, last \in LastLineSamples,
          missing \in {m \in SUBSET KeySet : Cardinality(m) <= MaxMissing},
          reversed \in BOOLEAN, final_nl \in BOOLEAN :
            /\ input = [kind |-> "text", first |-> first, last |-> last, missing |-> missing,
                        reversed |-> reversed, final_nl |-> final_nl]
            /\ src = JoinLines(BlockLines(first,
                                          IF reversed THEN Reverse(EXPECTED_KEYS) ELSE EXPECTED_KEYS,
                                          missing, last))
                     \o (IF final_nl THEN <<NL>> ELSE <<>>)
    /\ fmt = "text"
    /\ pc = "text_loop"
    /\ R = <<>>
    /\ wi = 0
    /\ out = <<>>
    /\ pos = 0
    /\ mark = 0
    /\ records = <<>>
    /\ cur = Record_default
    /\ expected_keys = KeySet
    /\ values = <<>>
    /\ fi = 0
    /\ result = NoResult
    /\ NoComparison
    /\ NoCall

SpecText == InitText /\ [][NextText]_vars

----------------------------------------------------------------------------
(* Reading a crafted binary source *)

\* The largest number of well-formed frames before the crafted frame.
MaxLead == 1

\* The record of the well-formed frames, and the one of the crafted frame.
LeadRecord ==
    Record_new(U64Of(7), "Deposit", U64Zero, U64Of(9), U64Of(100), U64Of(5), "Success", <<>>)
CraftedRecord ==
    Record_new(<<1, 2, 3, 4>>, "Withdrawal", U64Of(8), U64Zero, U64Max, U64Of(6), "Pending",
               <<"h", NL, EAcute>>)

\* What to_bin writes after the magic and record_size of the crafted record.
CraftedBody == SubSeq(to_bin(CraftedRecord), 9, Len(to_bin(CraftedRecord)))

\* The record_size to_bin writes for the crafted record.
CraftedSize == from_be_bytes(SubSeq(to_bin(CraftedRecord), 5, 8))

\* The first 4 bytes of the crafted frame: the magic; the magic with one
\* byte changed (the second, the last); zeros; the magic backwards.
MagicSamples ==
    { BINARY_MAGIC, <<89, 81, 66, 78>>, <<89, 80, 66, 79>>, <<0, 0, 0, 0>>, <<78, 66, 80, 89>> }

\* The record_size of the crafted frame: below 46, 46, above 46 and wrong,
\* right, far beyond the bytes present, and the largest u32.
SizeSamples ==
    { U32Of(0), U32Of(32), U32Of(45), U32Of(46), U32Of(47), CraftedSize, U32Of(1000),
      <<1, 0>>, <<LimbBase - 1, LimbBase - 1>> }

\* The number of bytes of the crafted frame that are present: cuts inside
\* the magic, after it, inside record_size, after it, inside the fixed
\* fields, inside description_len, before the last byte of the description,
\* and the whole frame.
KeepSamples == {2, 4, 6, 8, 20, 52, 7 + Len(CraftedBody), 8 + Len(CraftedBody)}

RECURSIVE Repeat(_, _)
Repeat(s, n) == IF n = 0 THEN <<>> ELSE s \o Repeat(s, n - 1)

InitBin ==
    /\ \E lead \in 0..MaxLead, magic \in MagicSamples, size \in SizeSamples,
          keep \in KeepSamples, followed \in BOOLEAN :
            /\ input = [kind |-> "bin", lead |-> lead, magic |-> magic, size |-> size,
                        keep |-> keep, followed |-> followed]
            /\ src = Repeat(to_bin(LeadRecord), lead)
                     \o SubSeq(magic \o to_be_bytes(size) \o CraftedBody, 1, keep)
                     \o (IF followed THEN to_bin(LeadRecord) ELSE <<>>)
    /\ fmt = "bin"
    /\ pc = "bin_loop"
    /\ R = <<>>
    /\ wi = 0
    /\ out = <<>>
    /\ pos = 0
    /\ mark = 0
    /\ records = <<>>
    /\ cur = Record_default
    /\ expected_keys = KeySet
    /\ values = <<>>
    /\ fi = 0
    /\ result = NoResult
    /\ NoComparison
    /\ NoCall

SpecBin == InitBin /\ [][NextBin]_vars

----------------------------------------------------------------------------
(* Reading a binary source whose last-but-one or last frame has a crafted  *)
(* description_len and description                                         *)

\* The fixed-width fields to_bin writes for the crafted record.
CraftedFixed == SubSeq(to_bin(CraftedRecord), 9, 50)

\* The bytes after description_len: none; `"ab"`, `""`, `"e-acute"`; the
\* quote alone; `ab`, `"ab`, `ab"`; FF alone and FF between quotes.
DescriptionBytesSamples ==
    { <<>>, <<34, 97, 98, 34>>, <<34, 34>>, <<34, 195, 169, 34>>, <<34>>,
      <<97, 98>>, <<34, 97, 98>>, <<97, 98, 34>>, <<255>>, <<34, 255, 34>> }

\* A frame of the crafted record whose description_len is the number of the
\* bytes that follow it.
DescriptionFrame(bytes) ==
    BINARY_MAGIC \o to_be_bytes(u32_add(U32Of(BINARY_MIN_RECORD_SIZE), U32OfNat(Len(bytes))))
    \o CraftedFixed \o to_be_bytes(U32OfNat(Len(bytes))) \o bytes

InitBinDescription ==
    /\ \E lead \in 0..MaxLead, bytes \in DescriptionBytesSamples, followed \in BOOLEAN :
            /\ input = [kind |-> "bin_description", lead |-> lead, bytes |-> bytes,
                        followed |-> followed]
            /\ src = Repeat(to_bin(LeadRecord), lead)
                     \o DescriptionFrame(bytes)
                     \o (IF followed THEN to_bin(LeadRecord) ELSE <<>>)
    /\ fmt = "bin"
    /\ pc = "bin_loop"
    /\ R = <<>>
    /\ wi = 0
    /\ out = <<>>
    /\ pos = 0
    /\ mark = 0
    /\ records = <<>>
    /\ cur = Record_default
    /\ expected_keys = KeySet
    /\ values = <<>>
    /\ fi = 0
    /\ result = NoResult
    /\ NoComparison
    /\ NoCall

SpecBinDescription == InitBinDescription /\ [][NextBin]_vars

----------------------------------------------------------------------------
(* Reading a binary source whose last frame is wrong in several places and *)
(* cut short                                                               *)

\* The tx_type and status bytes of the frame: a code of the enum, the first
\* byte that is no code, and the largest byte.
TxTypeByteSamples == {1, 3, 255}
StatusByteSamples == {2, 3, 255}

\* The bytes after description_len: `"ab"`, `ab`, and FF between quotes.
StagedDescriptionSamples == {<<34, 97, 98, 34>>, <<97, 98>>, <<34, 255, 34>>}

\* The frame of the crafted record with the given magic, record_size,
\* tx_type byte, status byte and description bytes.
StagedFrame(magic, size, tx_type, status, bytes) ==
    magic \o to_be_bytes(size)
    \o SubSeq(CraftedFixed, 1, 8) \o <<tx_type>> \o SubSeq(CraftedFixed, 10, 41) \o <<status>>
    \o to_be_bytes(U32OfNat(Len(bytes))) \o bytes

\* The number of bytes of the frame that are present: the magic; magic and
\* record_size; up to tx_type; a cut inside the user ids; up to status; a
\* cut inside description_len; up to description_len; all but the last
\* byte; the whole frame (58 bytes at most).
StagedKeepSamples == {4, 8, 17, 30, 50, 52, 54, 55, 58}

InitBinStages ==
    /\ \E lead \in 0..MaxLead, magic \in {BINARY_MAGIC, <<89, 80, 66, 79>>},
          size \in {U32Of(45), U32Of(50)},
          tx_type \in TxTypeByteSamples, status \in StatusByteSamples,
          bytes \in StagedDescriptionSamples, keep \in StagedKeepSamples :
            /\ input = [kind |-> "bin_stages", lead |-> lead, magic |-> magic, size |-> size,
                        tx_type |-> tx_type, status |-> status, bytes |-> bytes, keep |-> keep]
            /\ src = Repeat(to_bin(LeadRecord), lead)
                     \o SubSeq(StagedFrame(magic, size, tx_type, status, bytes), 1,
                               IF keep < 54 + Len(bytes) THEN keep ELSE 54 + Len(bytes))
    /\ fmt = "bin"
    /\ pc = "bin_loop"
    /\ R = <<>>
    /\ wi = 0
    /\ out = <<>>
    /\ pos = 0
    /\ mark = 0
    /\ records = <<>>
    /\ cur = Record_default
    /\ expected_keys = KeySet
    /\ values = <<>>
    /\ fi = 0
    /\ result = NoResult
    /\ NoComparison
    /\ NoCall

SpecBinStages == InitBinStages /\ [][NextBin]_vars

----------------------------------------------------------------------------
(* Reading a text block whose lines are permuted, with comment lines or a  *)
(* second line for one key among them                                      *)

\* The largest number of comment lines put into the block.
MaxComments == 2

\* A second valid line for each key, with another value.
OtherLine(key) ==
    CASE key = "TxId" -> <<"T", "X", "_", "I", "D", ":", " ", "7">>
      [] key = "TxType" -> <<"T", "X", "_", "T", "Y", "P", "E", ":", " ", "D", "E", "P", "O", "S", "I", "T">>
      [] key = "FromUserId" -> <<"F", "R", "O", "M", "_", "U", "S", "E", "R", "_", "I", "D", ":", " ", "8">>
      [] key = "ToUserId" -> <<"T", "O", "_", "U", "S", "E", "R", "_", "I", "D", ":", " ", "9">>
      [] key = "Amount" -> <<"A", "M", "O", "U", "N", "T", ":", " ", "0">>
      [] key = "Timestamp" -> <<"T", "I", "M", "E", "S", "T", "A", "M", "P", ":", " ", "6">>
      [] key = "Status" -> <<"S", "T", "A", "T", "U", "S", ":", " ", "P", "E", "N", "D", "I", "N", "G">>
      [] key = "Description" -> <<"D", "E", "S", "C", "R", "I", "P", "T", "I", "O", "N", ":", " ", QUOTE, "#", QUOTE>>

\* The pairs of positions exchanged (equal positions: none).
SwapSamples == {<<1, 1>>, <<1, 2>>, <<1, 8>>, <<4, 5>>, <<3, 7>>}

\* The canonical keys rotated by rot, reversed or not, two of them exchanged.
Permuted(rot, reversed, swap) ==
    LET n == Len(EXPECTED_KEYS)
        rotated == [i \in 1..n |-> EXPECTED_KEYS[((i - 1 + rot) % n) + 1]]
        turned == IF reversed THEN Reverse(rotated) ELSE rotated
    IN [i \in 1..n |-> IF i = swap[1] THEN turned[swap[2]]
                       ELSE IF i = swap[2] THEN turned[swap[1]]
                       ELSE turned[i]]

\* lines with the lines of extra put in after its first `at` lines.
InsertAt(lines, at, extra) == SubSeq(lines, 1, at) \o extra \o SubSeq(lines, at + 1, Len(lines))

InitOrder ==
    /\ \E rot \in 0..7, reversed \in BOOLEAN, at \in 0..8 :
          \/ \E swap \in SwapSamples, comments \in 0..MaxComments :
                /\ input = [kind |-> "order", keys |-> Permuted(rot, reversed, swap), at |-> at,
                            comments |-> comments, second |-> "None"]
                /\ src = JoinLines(InsertAt([i \in 1..8 |-> ValidLine(input.keys[i])], at,
                                            [i \in 1..comments |-> CommentLine]))
          \/ \E second \in KeySet :
                /\ input = [kind |-> "order", keys |-> Permuted(rot, reversed, <<1, 1>>), at |-> at,
                            comments |-> 0, second |-> second]
                /\ src = JoinLines(InsertAt([i \in 1..8 |-> ValidLine(input.keys[i])], at,
                                            <<OtherLine(second)>>))
    /\ fmt = "text"
    /\ pc = "text_loop"
    /\ R = <<>>
    /\ wi = 0
    /\ out = <<>>
    /\ pos = 0
    /\ mark = 0
    /\ records = <<>>
    /\ cur = Record_default
    /\ expected_keys = KeySet
    /\ values = <<>>
    /\ fi = 0
    /\ result = NoResult
    /\ NoComparison
    /\ NoCall

SpecOrder == InitOrder /\ [][NextText]_vars

----------------------------------------------------------------------------
(* Reading a text source of several blocks, and any crafted source *)

\* The largest number of blocks in the source.
MaxBlocks == 2

LoneQuoteLine == <<"D", "E", "S", "C", "R", "I", "P", "T", "I", "O", "N", ":", " ", QUOTE>>

\* Two blocks that are records: the canonical lines; the same lines in
\* reverse order between an earlier TX_ID line and a comment.
BlockA == BlockLines(NoLine, EXPECTED_KEYS, {}, NoLine)
BlockB == BlockLines(EarlierTxIdLine, Reverse(EXPECTED_KEYS), {"TxId"}, CommentLine)

GoodBlocks == {BlockA, BlockB}

\* The record of a block that is one.
BlockRecord(block) ==
    IF block = BlockA THEN ValidLinesRecord
    ELSE [ValidLinesRecord EXCEPT !.tx_id = U64Of(7)]

\* Blocks that are no record: without a STATUS line; ending with a line whose
\* value is rejected, whose key is unknown, that is not UTF-8, or whose
\* description is a lone quote.
BadBlocks ==
    { BlockLines(NoLine, EXPECTED_KEYS, {"Status"}, NoLine),
      BlockLines(NoLine, EXPECTED_KEYS, {"Amount"}, BadAmountLine),
      BlockLines(NoLine, EXPECTED_KEYS, {}, UnknownKeyLine),
      BlockLines(NoLine, EXPECTED_KEYS, {"Description"}, <<BadByte>>),
      BlockLines(NoLine, EXPECTED_KEYS, {"Description"}, LoneQuoteLine) }

\* What follows the last line of the last block: nothing, its newline, its
\* newline and a blank line.
EndingSamples == {<<>>, <<NL>>, <<NL, NL>>}

\* The blocks, a blank line between two of them.
RECURSIVE JoinBlocks(_)
JoinBlocks(blocks) ==
    IF blocks = <<>> THEN <<>>
    ELSE IF Len(blocks) = 1 THEN JoinLines(blocks[1])
    ELSE JoinLines(blocks[1]) \o <<NL, NL>> \o JoinBlocks(Tail(blocks))

InitBlocks ==
    /\ \E n \in 1..MaxBlocks, ending \in EndingSamples :
         \E blocks \in [1..n -> GoodBlocks \cup BadBlocks] :
            /\ input = [kind |-> "blocks", blocks |-> blocks, ending |-> ending]
            /\ src = JoinBlocks(blocks) \o ending
    /\ fmt = "text"
    /\ pc = "text_loop"
    /\ R = <<>>
    /\ wi = 0
    /\ out = <<>>
    /\ pos = 0
    /\ mark = 0
    /\ records = <<>>
    /\ cur = Record_default
    /\ expected_keys = KeySet
    /\ values = <<>>
    /\ fi = 0
    /\ result = NoResult
    /\ NoComparison
    /\ NoCall

SpecBlocks == InitBlocks /\ [][NextText]_vars

\* What follows the last line of the last block, none of it a `KEY: value`
\* line: nothing; its newline; a blank line; two and three blank lines; a
\* blank line and a comment, with and without its newline.
TrailingSamples ==
    { <<>>, <<NL>>, <<NL, NL>>, <<NL, NL, NL>>, <<NL, NL, NL, NL>>,
      <<NL, NL>> \o CommentLine, <<NL, NL>> \o CommentLine \o <<NL>>,
      <<NL>> \o CommentLine \o <<NL>> }

InitTrailing ==
    /\ \E n \in 0..MaxBlocks, trailing \in TrailingSamples :
         \E blocks \in [1..n -> GoodBlocks] :
            /\ input = [kind |-> "trailing", blocks |-> blocks, trailing |-> trailing]
            /\ src = JoinBlocks(blocks) \o trailing
    /\ fmt = "text"
    /\ pc = "text_loop"
    /\ R = <<>>
    /\ wi = 0
    /\ out = <<>>
    /\ pos = 0
    /\ mark = 0
    /\ records = <<>>
    /\ cur = Record_default
    /\ expected_keys = KeySet
    /\ values = <<>>
    /\ fi = 0
    /\ result = NoResult
    /\ NoComparison
    /\ NoCall

SpecTrailing == InitTrailing /\ [][NextText]_vars

InitRead == InitBlocks \/ InitCsv \/ InitBin

NextRead == NextText \/ NextCsv \/ NextBin

SpecRead == InitRead /\ [][NextRead]_vars

\* The control points of the three read operations.
ReadStages ==
    {"text_loop", "from_text", "csv_header", "csv_loop", "from_csv", "csv_fields",
     "bin_loop", "bin_magic", "bin_size", "bin_fields", "bin_desc", "done"}

\* The thread of a read that has not returned goes on: its control point,
\* its position in the source or its count of validated parts changes.
\* Every step of NextRead is such a change, and in every state in which
\* the read has not returned a step of NextRead is possible.
Running ==
    /\ pc # "done"
    /\ pc' \in ReadStages
    /\ pos' \in 0..Len(src)
    /\ fi' \in 0..8

\* The same reads, run by a thread that is never suspended for ever.
SpecReadFair == InitRead /\ [][NextRead]_vars /\ WF_<<pc, pos, fi>>(Running)

----------------------------------------------------------------------------
(* The comparer *)

\* The largest number of records in either file.
MaxCompared == 3

\* `r1 != r2`: PartialEq is derived for Record, all fields are compared.
Record_ne(r1, r2) == r1 # r2

\* A faulty variant of transaction_number that keeps the 0-based index.
transaction_number_from_zero(i) == i

\* `idx + 1`: the number printed for the pair at index idx.
transaction_number(i) == i + 1

\* panic!("The number of transactions in the files differs ({} != {})!").
LengthsDiffer(len1, len2) == [kind |-> "LengthsDiffer", number |-> 0, len1 |-> len1, len2 |-> len2]
\* println!("Transactions numbered {} are different!").
Different(number) == [kind |-> "Different", number |-> number, len1 |-> 0, len2 |-> 0]
\* println!("Transactions in files ... are completely identical!").
Identical == [kind |-> "Identical", number |-> 0, len1 |-> 0, len2 |-> 0]

\* main: the comparison of the two lengths.
compare_lengths ==
    /\ pc = "compare_lengths"
    /\ IF Len(data1) # Len(data2)
       THEN pc' = "done" /\ outcome' = LengthsDiffer(Len(data1), Len(data2))
       ELSE pc' = "position" /\ UNCHANGED outcome
    /\ UNCHANGED <<data1, data2, idx, input, codec_vars, call_vars>>

\* main: one step of `zip(..).position(|(r1, r2)| r1 != r2)` and, when it
\* returns, the `match` on what it found.
position ==
    /\ pc = "position"
    /\ IF idx = Len(data1)
       THEN pc' = "done" /\ outcome' = Identical /\ UNCHANGED idx
       ELSE IF Record_ne(data1[idx + 1], data2[idx + 1])
       THEN pc' = "done" /\ outcome' = Different(transaction_number(idx)) /\ UNCHANGED idx
       ELSE idx' = idx + 1 /\ UNCHANGED <<pc, outcome>>
    /\ UNCHANGED <<data1, data2, input, codec_vars, call_vars>>

\* Three records, the second and third differing from the first in one
\* field each.
ComparedRecords ==
    { LeadRecord, [LeadRecord EXCEPT !.description = <<"x">>], [LeadRecord EXCEPT !.amount = U64Max] }

InitCompare ==
    /\ input = [kind |-> "compare"]
    /\ \E n1, n2 \in 0..MaxCompared :
          /\ data1 \in [1..n1 -> ComparedRecords]
          /\ data2 \in [1..n2 -> ComparedRecords]
    /\ idx = 0
    /\ outcome = NoOutcome
    /\ NoCall
    /\ pc = "compare_lengths"
    /\ fmt = "text"
    /\ R = <<>>
    /\ wi = 0
    /\ out = <<>>
    /\ src = <<>>
    /\ pos = 0
    /\ mark = 0
    /\ records = <<>>
    /\ cur = Record_default
    /\ expected_keys = KeySet
    /\ values = <<>>
    /\ fi = 0
    /\ result = NoResult

NextCompare == compare_lengths \/ position

SpecCompare == InitCompare /\ [][NextCompare]_vars

----------------------------------------------------------------------------
(* A single call of a conversion of TxType or Status.  A value that was    *)
(* encoded (to its code or to its name) is decoded again.                  *)

\* The codes a byte can hold.
Bytes == 0..255

\* Names and near-names handed to TryFrom<&str>.
NameSamples ==
    { TxType_to_string(t) : t \in TxTypes } \cup { Status_to_string(s) : s \in Statuses } \cup
    { <<>>, <<"d", "e", "p", "o", "s", "i", "t">>, <<"D", "e", "p", "o", "s", "i", "t">>,
      <<"D", "E", "P", "O", "S", "I">>, <<"D", "E", "P", "O", "S", "I", "T", " ">>,
      <<"P", "E", "N", "D", "I", "N", "G", "S">>, <<"0">>, <<"1">> }

Decoders == {"TxType::try_from(u8)", "Status::try_from(u8)",
             "TxType::try_from(&str)", "Status::try_from(&str)"}

\* The decoder named fn applied to value.
Decode(fn, value) ==
    CASE fn = "TxType::try_from(u8)" -> TxType_try_from_u8(value)
      [] fn = "Status::try_from(u8)" -> Status_try_from_u8(value)
      [] fn = "TxType::try_from(&str)" -> TxType_try_from_str(value)
      [] fn = "Status::try_from(&str)" -> Status_try_from_str(value)

Encoders == {"u8::from(TxType)", "u8::from(Status)", "TxType::to_string", "Status::to_string"}

\* The encoder named fn applied to value.
Encode(fn, value) ==
    CASE fn = "u8::from(TxType)" -> TxType_as_u8(value)
      [] fn = "u8::from(Status)" -> Status_as_u8(value)
      [] fn = "TxType::to_string" -> TxType_to_string(value)
      [] fn = "Status::to_string" -> Status_to_string(value)

\* The decoder that takes what the encoder named fn returns.
DecoderOf(fn) ==
    CASE fn = "u8::from(TxType)" -> "TxType::try_from(u8)"
      [] fn = "u8::from(Status)" -> "Status::try_from(u8)"
      [] fn = "TxType::to_string" -> "TxType::try_from(&str)"
      [] fn = "Status::to_string" -> "Status::try_from(&str)"

Decoded(r) == [kind |-> "Decoded", ok |-> r.ok, val |-> r.val, err |-> r.err]
Encoded(v) == [kind |-> "Encoded", val |-> v]

\* A decoder is called on a raw value.
decode ==
    /\ pc = "call"
    /\ arg.fn \in Decoders
    /\ ret' = Decoded(Decode(arg.fn, arg.value))
    /\ pc' = "done"
    /\ UNCHANGED <<arg, comparer_vars, input, codec_vars>>

\* An encoder is called on a value of the enum.
encode ==
    /\ pc = "call"
    /\ arg.fn \in Encoders
    /\ ret' = Encoded(Encode(arg.fn, arg.value))
    /\ pc' = "decode"
    /\ UNCHANGED <<arg, comparer_vars, input, codec_vars>>

\* What the encoder returned is decoded.
decode_encoded ==
    /\ pc = "decode"
    /\ ret' = Decoded(Decode(DecoderOf(arg.fn), ret.val))
    /\ pc' = "done"
    /\ UNCHANGED <<arg, comparer_vars, input, codec_vars>>

\* The codec is idle during a single call.
CodecIdle ==
    /\ fmt = "text"
    /\ R = <<>>
    /\ wi = 0
    /\ out = <<>>
    /\ src = <<>>
    /\ pos = 0
    /\ mark = 0
    /\ records = <<>>
    /\ cur = Record_default
    /\ expected_keys = KeySet
    /\ values = <<>>
    /\ fi = 0
    /\ result = NoResult

InitConvert ==
    /\ input = [kind |-> "convert"]
    /\ \/ \E fn \in {"TxType::try_from(u8)", "Status::try_from(u8)"}, b \in Bytes :
             arg = [fn |-> fn, value |-> b]
       \/ \E fn \in {"TxType::try_from(&str)", "Status::try_from(&str)"}, s \in NameSamples :
             arg = [fn |-> fn, value |-> s]
       \/ \E fn \in {"u8::from(TxType)", "TxType::to_string"}, t \in TxTypes :
             arg = [fn |-> fn, value |-> t]
       \/ \E fn \in {"u8::from(Status)", "Status::to_string"}, s \in Statuses :
             arg = [fn |-> fn, value |-> s]
    /\ ret = NoRet
    /\ pc = "call"
    /\ CodecIdle
    /\ NoComparison

NextConvert == decode \/ encode \/ decode_encoded

SpecConvert == InitConvert /\ [][NextConvert]_vars

----------------------------------------------------------------------------
(* A single call of Record::validate_and_set_value_by_key on a record.     *)

\* Raw values handed to the numeric validators: 0, 42, u64::MAX and
\* u64::MAX + 1, 20 nines, the empty string, and texts with a sign, leading
\* zeros, a letter, a space, a point.
NumberSamples ==
    { <<"0">>, <<"4", "2">>,
      <<"1", "8", "4", "4", "6", "7", "4", "4", "0", "7", "3", "7", "0", "9", "5", "5", "1", "6",
        "1", "5">>,
      <<"1", "8", "4", "4", "6", "7", "4", "4", "0", "7", "3", "7", "0", "9", "5", "5", "1", "6",
        "1", "6">>,
      <<"9", "9", "9", "9", "9", "9", "9", "9", "9", "9", "9", "9", "9", "9", "9", "9", "9", "9",
        "9", "9">>,
      <<>>, <<"-", "1">>, <<"-", "0">>, <<"+", "5">>, <<"+">>, <<"0", "0", "7">>, <<"1", "2", "a">>,
      <<" ", "1">>, <<"1", " ">>, <<"1", ".", "5">>, <<"0", "x", "1">> }

\* Raw values handed to the description validator: quoted (also empty, also
\* with a quote inside), the quote alone, and values that lack one or both
\* quotes.
RawDescriptionSamples ==
    { <<QUOTE, "a", "b", QUOTE>>, <<QUOTE, QUOTE>>, <<QUOTE, "a", QUOTE, "b", QUOTE>>,
      <<QUOTE, EAcute, QUOTE>>, <<QUOTE>>, <<>>, <<"a", "b">>, <<QUOTE, "a", "b">>,
      <<"a", "b", QUOTE>>, <<" ", QUOTE, "a", QUOTE>> }

\* The raw values tried for a key.
ValueSamples(key) ==
    CASE key \in {"TxId", "FromUserId", "ToUserId", "Amount", "Timestamp"} -> NumberSamples
      [] key \in {"TxType", "Status"} -> NameSamples
      [] key = "Description" -> RawDescriptionSamples

\* The record the validator is called on.
PriorRecords == {Record_default, CraftedRecord}

\* validate_and_set_value_by_key(key, value) is called on a record.
validate ==
    /\ pc = "call"
    /\ arg.fn = "validate_and_set_value_by_key"
    /\ ret' = validate_and_set_value_by_key(arg.rec, arg.key, arg.value)
    /\ pc' = "done"
    /\ UNCHANGED <<arg, comparer_vars, input, codec_vars>>

InitValidate ==
    /\ input = [kind |-> "validate"]
    /\ \E rec \in PriorRecords, key \in KeySet :
          \E value \in ValueSamples(key) :
             arg = [fn |-> "validate_and_set_value_by_key", rec |-> rec, key |-> key,
                    value |-> value]
    /\ ret = NoRet
    /\ pc = "call"
    /\ CodecIdle
    /\ NoComparison

NextValidate == validate

SpecValidate == InitValidate /\ [][NextValidate]_vars

----------------------------------------------------------------------------
(* Properties of writing and reading back *)

\* The reader of format f has returned in a write-then-read run.
ReadBack(f) == input.kind = "roundtrip" /\ fmt = f /\ pc = "done"

HasNewline(description) == \E i \in 1..Len(description) : description[i] = NL

\* C1: reading with the text reader what the text writer wrote for a
\* RecordSet R, whatever the descriptions of its records, returns Ok with a
\* RecordSet equal to R.
C1_TextRoundTrip == ReadBack("text") => result = Ok(R)

\* C1, the failure: a single record whose description holds a newline is
\* written and read back, and the reader does not return Ok.
C1_NewlineDescriptionLost ==
    /\ ReadBack("text")
    /\ Len(R) = 1 /\ HasNewline(R[1].description)
    /\ result.kind # "Ok"

\* C2: reading with the CSV reader what the CSV writer wrote for a RecordSet
\* R, descriptions with commas and quotes included, returns Ok with a
\* RecordSet equal to R.
C2_CsvRoundTrip == ReadBack("csv") => result = Ok(R)

\* C2, the failure: a single record whose description is one newline is
\* written and read back, and the reader panics on the second line it takes
\* for a record.
C2_NewlineDescriptionPanics ==
    /\ ReadBack("csv")
    /\ Len(R) = 1 /\ R[1].description = <<NL>>
    /\ result.kind = "Panic"

\* C3: reading with the binary reader what the binary writer wrote for a
\* RecordSet R, empty descriptions and descriptions with newlines included,
\* returns Ok with a RecordSet equal to R, in the same order.
C3_BinRoundTrip == ReadBack("bin") => result = Ok(R)

\* C3, the case: two different records, the first with an empty description
\* and the second with a newline in it, have been written and read back.
C3_BinRoundTripReached ==
    /\ ReadBack("bin")
    /\ Len(R) = 2 /\ R[1] # R[2]
    /\ R[1].description = <<>> /\ HasNewline(R[2].description)
    /\ result.kind = "Ok" /\ Len(result.records) = 2

\* C4: an empty RecordSet is written as nothing by the text and binary
\* writers and as the header line and one newline by the CSV writer, and
\* reading that back with the same format returns Ok with no record.
C4_EmptyRecordSet ==
    (input.kind = "roundtrip" /\ R = <<>> /\ pc \notin {"write", "write_header"}) =>
        /\ out = (IF fmt = "csv" THEN CanonicalHeader \o <<NL>> ELSE <<>>)
        /\ src = out
        /\ pc = "done" => result = Ok(<<>>)

\* C4, the case: the empty RecordSet went through the CSV writer and reader.
C4_EmptyCsvReadBack ==
    /\ ReadBack("csv") /\ R = <<>>
    /\ src # <<>> /\ result.kind = "Ok"


----------------------------------------------------------------------------
(* Properties of reading a crafted CSV source *)

IsText(line) == \A i \in 1..Len(line) : line[i] # BadByte

\* The number of elements the reader has consumed once the first line is read.
FirstLineLen == Len(input.header) + (IF Len(src) > Len(input.header) THEN 1 ELSE 0)

\* C5: whenever the first line differs from the canonical header, the read
\* returns the "invalid header structure" error whatever lines follow, and no
\* record line is read or validated before.
C5_HeaderMismatch ==
    (input.kind = "csv" /\ input.header # CanonicalHeader) =>
        /\ pc \in {"csv_header", "done"}
        /\ records = <<>> /\ cur = Record_default /\ values = <<>>
        /\ pc = "done" => result = ErrHeader /\ pos = FirstLineLen

\* C5, amended: whenever the first line is valid UTF-8 and differs from the
\* canonical header, the read returns the "invalid header structure" error
\* whatever lines follow, and no record line is read or validated before.
C5_TextHeaderMismatch ==
    (input.kind = "csv" /\ IsText(input.header) /\ input.header # CanonicalHeader) =>
        /\ pc \in {"csv_header", "done"}
        /\ records = <<>> /\ cur = Record_default /\ values = <<>>
        /\ pc = "done" => result = ErrHeader /\ pos = FirstLineLen

\* C5, the case: a header that lacks a column, followed by two lines the
\* first of which is a record, has been rejected.
C5_HeaderMismatchReached ==
    /\ input.kind = "csv" /\ pc = "done"
    /\ input.header # <<>> /\ Len(input.header) < Len(CanonicalHeader)
    /\ Len(input.lines) = 2 /\ input.lines[1] \in CsvRecordLines
    /\ result = ErrHeader

CommaCount(line) == Cardinality({i \in 1..Len(line) : line[i] = ","})

RECURSIVE JoinCommas(_)
JoinCommas(parts) ==
    IF Len(parts) = 1 THEN parts[1]
    ELSE parts[1] \o <<",">> \o JoinCommas(Tail(parts))

\* The line Record::from_csv reads, or has just read, is line k of the
\* source after a canonical header, and it is text.
AtCsvLine(k) ==
    /\ input.kind = "csv" /\ input.header = CanonicalHeader
    /\ k = Len(records) + 1 /\ k <= Len(input.lines)
    /\ ~(k = Len(input.lines) /\ input.lines[k] = <<>> /\ ~input.final_nl)
    /\ IsText(input.lines[k])

\* C9: a record line is split at its first 7 commas, so that the 8th part
\* holds every later comma; a line with n # 8 parts is rejected with
\* InvalidCountOfColumns(n), and none of its parts is validated.
C9_SplitIntoEight ==
    \A k \in 1..(Len(records) + 1) : AtCsvLine(k) =>
        LET line == input.lines[k]
            n == CommaCount(line) + 1
        IN /\ pc = "csv_fields" =>
                /\ Len(values) = 8 /\ n >= 8
                /\ JoinCommas(values) = line
                /\ \A i \in 1..7 : CommaCount(values[i]) = 0
           /\ (pc = "done" /\ n < 8) => result = ErrParse(InvalidCountOfColumns(n))
           /\ (pc = "done" /\ n >= 8) => result.perr.variant # "InvalidCountOfColumns"

\* C9, the case: a line whose description holds commas was read as a
\* record, and the next line, of 2 parts the first of which is no number,
\* was rejected for its number of parts.
C9_SplitIntoEightReached ==
    /\ AtCsvLine(2) /\ pc = "done"
    /\ CommaCount(records[1].description) = 2
    /\ CommaCount(input.lines[2]) = 1
    /\ result = ErrParse(InvalidCountOfColumns(2))


----------------------------------------------------------------------------
(* Properties of reading a crafted text source *)

\* Every line of the block is a comment or a valid `KEY: value` line.
AllLinesValid ==
    /\ input.first \in {NoLine, CommentLine, EarlierTxIdLine}
    /\ input.last \in {NoLine, CommentLine, HashKeyLine}

\* The canonical keys that have a line in the block.
KeysPresent ==
    (KeySet \ input.missing) \cup (IF input.first = EarlierTxIdLine THEN {"TxId"} ELSE {})

\* C7: for each canonical key K, a block whose lines are all valid and that
\* holds every canonical key except K yields MissingKey naming K, and no
\* record.
C7_MissingKey ==
    \A K \in KeySet :
        (input.kind = "text" /\ AllLinesValid /\ KeysPresent = KeySet \ {K} /\ pc = "done") =>
            /\ result = ErrParse(MissingKey(RecordKey_to_string(K)))
            /\ records = <<>>

\* C7, the case: a block in reverse order without its STATUS line, and with
\* no other line, has been read to its end.
C7_MissingKeyReached ==
    /\ input.kind = "text" /\ pc = "done"
    /\ input.missing = {"Status"} /\ input.reversed
    /\ input.first = NoLine /\ input.last = NoLine
    /\ result.perr.variant = "MissingKey"

\* The name before the colon in the lines whose name is no canonical key.
UnknownKeyLines == {UnknownKeyLine, LowerCaseKeyLine, EmptyKeyLine}

UnknownKeyOf(line) == SubSeq(line, 1, IndexFrom(line, ":", 1) - 1)

\* C8: a block containing a line `KEY: value` whose KEY is no canonical key
\* yields InvalidKey carrying that key text, even when all 8 canonical keys
\* are present in the block.
C8_InvalidKey ==
    (input.kind = "text" /\ input.last \in UnknownKeyLines /\ pc = "done") =>
        result = ErrParse(InvalidKey(UnknownKeyOf(input.last)))

\* C8, amended: a block containing a line `KEY: value` whose KEY is no
\* canonical key, and in which every line before that one is a comment or a
\* valid line, yields InvalidKey carrying that key text (and no record), even
\* when all 8 canonical keys are present in the block.
C8_InvalidKeyAfterValidLines ==
    (/\ input.kind = "text" /\ input.last \in UnknownKeyLines
     /\ input.first \in {NoLine, CommentLine, EarlierTxIdLine}
     /\ pc = "done") =>
        /\ result = ErrParse(InvalidKey(UnknownKeyOf(input.last)))
        /\ records = <<>>

\* C8, the case: a block with all 8 canonical keys and then a line with an
\* unknown key has been rejected with InvalidKey.
C8_InvalidKeyReached ==
    /\ input.kind = "text" /\ pc = "done"
    /\ input.missing = {} /\ input.first = NoLine /\ input.last = UnknownKeyLine
    /\ result.perr.variant = "InvalidKey"
    /\ result.perr.text = <<"U", "N", "E", "X", "P", "E", "C", "T", "E", "D", "_", "K", "E", "Y">>

----------------------------------------------------------------------------
(* Properties of reading a crafted binary source *)

\* The records of the source when every frame of it is read.
AllFrames ==
    [i \in 1..input.lead |-> LeadRecord]
    \o <<CraftedRecord>>
    \o (IF input.followed THEN <<LeadRecord>> ELSE <<>>)

\* C6: at the start of a frame whose first 4 bytes are not 59 50 42 4E, the
\* result is InvalidMagicNumber, however many bytes follow and whether or
\* not they would make a valid frame; nothing after those 4 bytes is read.
C6_InvalidMagicNumber ==
    (input.kind = "bin" /\ input.keep >= 4 /\ input.magic # <<89, 80, 66, 78>>) =>
        /\ Len(records) <= input.lead
        /\ Len(records) = input.lead => pc \in {"bin_loop", "bin_magic", "done"}
        /\ pc = "done" =>
              /\ result = ErrParse(InvalidMagicNumber)
              /\ Len(records) = input.lead
              /\ pos = input.lead * Len(to_bin(LeadRecord)) + 4

\* C6, the case: after one well-formed frame, a frame that is whole and
\* valid except for the second byte of its magic, and that a well-formed
\* frame follows, has been rejected.
C6_InvalidMagicNumberReached ==
    /\ input.kind = "bin" /\ pc = "done"
    /\ input.lead = 1 /\ input.magic = <<89, 81, 66, 78>>
    /\ input.size = CraftedSize /\ input.keep = 8 + Len(CraftedBody) /\ input.followed
    /\ result.perr = InvalidMagicNumber

SizeBelowMin == input.size[1] = 0 /\ input.size[2] < 46

\* C10: a frame with the right magic and a record_size v < 46 is rejected
\* with InvalidRecordSize(v); every v >= 46 passes, whatever the length of
\* the description and whatever bytes are present, so that a whole frame is
\* read as its record whatever v >= 46 it carries.
C10_RecordSize ==
    (input.kind = "bin" /\ input.keep >= 8 /\ input.magic = <<89, 80, 66, 78>>) =>
        /\ (SizeBelowMin /\ Len(records) = input.lead) =>
              pc \in {"bin_loop", "bin_magic", "bin_size", "done"}
        /\ (SizeBelowMin /\ pc = "done") =>
              /\ result = ErrParse(InvalidRecordSize(input.size))
              /\ Len(records) = input.lead
        /\ (~SizeBelowMin /\ pc = "done") =>
              /\ result.perr.variant # "InvalidRecordSize"
              /\ input.keep = 8 + Len(CraftedBody) => result = Ok(AllFrames)

\* C10, the case: a whole frame whose record_size, 1000, is far beyond
\* both 46 + description_len and the bytes present has been read as a
\* record.
C10_RecordSizeReached ==
    /\ input.kind = "bin" /\ pc = "done"
    /\ input.magic = <<89, 80, 66, 78>> /\ input.size = U32Of(1000)
    /\ input.keep = 8 + Len(CraftedBody) /\ ~input.followed
    /\ result.kind = "Ok" /\ result.records[Len(result.records)] = CraftedRecord


----------------------------------------------------------------------------
(* Properties of reading any crafted source *)

\* The line k of a CSV source is there to be read.
CsvLineExists(k) ==
    /\ k \in 1..Len(input.lines)
    /\ ~(k = Len(input.lines) /\ input.lines[k] = <<>> /\ ~input.final_nl)

\* Record k of the source is the first one that is malformed.
FirstMalformed(k) ==
    CASE input.kind = "blocks" ->
            /\ k \in 1..Len(input.blocks)
            /\ input.blocks[k] \in BadBlocks
            /\ \A j \in 1..(k - 1) : input.blocks[j] \in GoodBlocks
      [] input.kind = "csv" ->
            /\ input.header = CanonicalHeader
            /\ CsvLineExists(k)
            /\ input.lines[k] \notin CsvRecordLines
            /\ \A j \in 1..(k - 1) : input.lines[j] \in CsvRecordLines
      [] input.kind = "bin" ->
            /\ k = input.lead + 1
            /\ \/ input.keep >= 4 /\ input.magic # <<89, 80, 66, 78>>
               \/ input.keep >= 8 /\ SizeBelowMin
               \/ input.keep < 8 + Len(CraftedBody) /\ ~input.followed
      [] OTHER -> FALSE

\* C11: in every format, when a record of the source fails to parse the read
\* returns the error and nothing else: it ends at that record with Err, the
\* records parsed before it and the record under construction stay with the
\* reader, and no later record is parsed.
C11_ReturnsOnlyTheError ==
    /\ result.kind # "Ok" => result.records = <<>>
    /\ \A k \in 1..(Len(records) + 1) : FirstMalformed(k) =>
          /\ Len(records) < k
          /\ pc = "done" => (result.kind = "Err" /\ Len(records) = k - 1)

\* C11, the failure: after a block that is a record, a block whose
\* description value is a lone quote ends the read by a panic: no error is
\* returned.
C11_LoneQuotePanics ==
    /\ input.kind = "blocks" /\ pc = "done"
    /\ Len(input.blocks) = 2 /\ input.blocks[1] \in GoodBlocks
    /\ input.blocks[2] = BlockLines(NoLine, EXPECTED_KEYS, {"Description"}, LoneQuoteLine)
    /\ Len(records) = 1
    /\ result.kind = "Panic"

\* C11, what the readers do guarantee: at the first malformed record the read
\* ends without Ok, by an error or by that panic, and no RecordSet, no earlier
\* record and no later record reaches the caller.
C11_WholeReadFails ==
    /\ result.kind # "Ok" => result.records = <<>>
    /\ \A k \in 1..(Len(records) + 1) : FirstMalformed(k) =>
          /\ Len(records) < k
          /\ pc = "done" => (result.kind # "Ok" /\ Len(records) = k - 1)


\* The ReadError variants that failures of one origin are converted to.
TxtErrors ==
    { ColonNotFound(<<"k">>), InvalidKey(<<"k">>), MissingKey(<<"k">>),
      InvalidValueError(InvalidValue(<<"v">>, <<"d">>)), UnexpectedError(InvalidUtf8Message) }
CsvErrors ==
    { InvalidCountOfColumns(7), InvalidValueError(InvalidValue(<<"v">>, <<"d">>)),
      UnexpectedError(InvalidUtf8Message) }
BinErrors ==
    { InvalidMagicNumber, InvalidRecordSize(U32Of(0)),
      InvalidValueError(InvalidValue(<<"v">>, <<"d">>)), UnexpectedError(UnexpectedEofMessage) }

VariantsOf(origin) ==
    CASE origin = "text" -> {ReadError_from_txt(e).variant : e \in TxtErrors}
      [] origin = "csv" -> {ReadError_from_csv(e).variant : e \in CsvErrors}
      [] origin = "bin" -> {ReadError_from_bin(e).variant : e \in BinErrors}
      [] origin = "io" -> {ReadError_from_io(InvalidUtf8Message).variant}

\* Where the failure of a read that returned an error comes from: from
\* Record::from_* of the format, or from a read of the operation itself.
Origin == IF result.perr = NoParseError THEN "io" ELSE fmt

\* C12: the ReadError of a failed read keeps the origin of the failure
\* distinguishable: its variant is one that failures of the three other
\* origins (text, CSV, binary parse failure, plain I/O failure) never get.
C12_OriginDistinguishable ==
    (pc = "done" /\ result.kind = "Err" /\ result # ErrHeader) =>
        \A other \in {"text", "csv", "bin", "io"} \ {Origin} :
            result.err.variant \notin VariantsOf(other)

\* C12, the failure: a CSV line of 7 parts is rejected, and the ReadError
\* returned has the variant, InvalidFormat, that every text and binary parse
\* failure gets, with the Display text of the CSV error as its content.
C12_CsvFailureAsInvalidFormat ==
    /\ input.kind = "csv" /\ pc = "done"
    /\ result.perr = InvalidCountOfColumns(7)
    /\ result.err = ReadError("InvalidFormat", <<"Invalid count of columns: ", "7">>)
    /\ result.err.variant \in VariantsOf("text") \cap VariantsOf("bin")


----------------------------------------------------------------------------
(* Properties of the comparer *)

\* The positions, from 1, at which two files of one length differ.
DifferingPositions == {i \in 1..Len(data1) : data1[i] # data2[i]}

Smallest(S) == CHOOSE i \in S : \A j \in S : i <= j

\* C13: when the lengths differ, the length mismatch is reported and no pair
\* of records is compared; when they are equal, the number reported is the
\* smallest position, from 1, at which the records differ, and "identical"
\* is reported exactly when no position differs.
C13_Comparer ==
    input.kind = "compare" =>
        IF Len(data1) # Len(data2)
        THEN /\ pc # "position" /\ idx = 0
             /\ pc = "done" => outcome = LengthsDiffer(Len(data1), Len(data2))
        ELSE pc = "done" =>
                /\ outcome.kind \in {"Different", "Identical"}
                /\ outcome.kind = "Identical" <=> DifferingPositions = {}
                /\ outcome.kind = "Different" =>
                       outcome.number = Smallest(DifferingPositions)

\* C13, the case: two files of three records that differ at positions 2 and
\* 3 have been compared, and 2 was reported.
C13_ComparerReached ==
    /\ input.kind = "compare" /\ pc = "done"
    /\ Len(data1) = 3 /\ Len(data2) = 3 /\ DifferingPositions = {2, 3}
    /\ outcome = Different(2)

----------------------------------------------------------------------------
(* Properties of the conversions of TxType and Status *)

\* The byte code and the uppercase name of each value.
CodeOf(v) ==
    CASE v \in {"Deposit", "Success"} -> 0
      [] v \in {"Transfer", "Failure"} -> 1
      [] v \in {"Withdrawal", "Pending"} -> 2

NameOf(v) ==
    CASE v = "Deposit" -> <<"D", "E", "P", "O", "S", "I", "T">>
      [] v = "Transfer" -> <<"T", "R", "A", "N", "S", "F", "E", "R">>
      [] v = "Withdrawal" -> <<"W", "I", "T", "H", "D", "R", "A", "W", "A", "L">>
      [] v = "Success" -> <<"S", "U", "C", "C", "E", "S", "S">>
      [] v = "Failure" -> <<"F", "A", "I", "L", "U", "R", "E">>
      [] v = "Pending" -> <<"P", "E", "N", "D", "I", "N", "G">>

\* The decimal text of a natural number.
RECURSIVE Decimal(_)
Decimal(n) ==
    IF n < 10 THEN <<Digits[n + 1]>> ELSE Decimal(n \div 10) \o <<Digits[(n % 10) + 1]>>

\* The enum a conversion belongs to.
EnumOf(fn) ==
    IF fn \in {"TxType::try_from(u8)", "TxType::try_from(&str)", "u8::from(TxType)",
               "TxType::to_string"}
    THEN {"Deposit", "Transfer", "Withdrawal"}
    ELSE {"Success", "Failure", "Pending"}

\* C14: Deposit, Transfer, Withdrawal and Success, Failure, Pending are
\* encoded as the byte codes 0, 1, 2 and as their uppercase names; decoding
\* the code or the name of a value returns that value; decoding a byte is Ok
\* exactly for the three codes and decoding a string exactly for the three
\* names of the enum, and every other byte or string is rejected with an
\* error that carries the raw value (a byte as its decimal text).
C14_Conversions ==
    input.kind = "convert" =>
      /\ pc = "decode" =>
            ret.val = IF arg.fn \in {"u8::from(TxType)", "u8::from(Status)"}
                      THEN CodeOf(arg.value) ELSE NameOf(arg.value)
      /\ pc = "done" /\ arg.fn \in Encoders =>
            ret.ok /\ ret.val = arg.value
      /\ pc = "done" /\ arg.fn \in {"TxType::try_from(u8)", "Status::try_from(u8)"} =>
            IF arg.value \in 0..2
            THEN ret.ok /\ ret.val \in EnumOf(arg.fn) /\ CodeOf(ret.val) = arg.value
            ELSE ~ret.ok /\ ret.err = Decimal(arg.value)
      /\ pc = "done" /\ arg.fn \in {"TxType::try_from(&str)", "Status::try_from(&str)"} =>
            IF \E v \in EnumOf(arg.fn) : NameOf(v) = arg.value
            THEN ret.ok /\ ret.val \in EnumOf(arg.fn) /\ NameOf(ret.val) = arg.value
            ELSE ~ret.ok /\ ret.err = arg.value

\* C14, the case: the byte 255 was handed to TryFrom<u8> for Status and
\* rejected with InvalidStatus("255").
C14_ByteRejected ==
    /\ input.kind = "convert"
    /\ pc = "done"
    /\ arg = [fn |-> "Status::try_from(u8)", value |-> 255]
    /\ ~ret.ok
    /\ ret.err = <<"2", "5", "5">>
----------------------------------------------------------------------------
(* Properties of the validators of a record *)

\* The validator of key was called on value and has returned.
Validated(key) == input.kind = "validate" /\ pc = "done" /\ arg.key = key

Quoted(value) == Len(value) >= 1 /\ value[1] = QUOTE /\ value[Len(value)] = QUOTE

\* C15: a raw description is accepted exactly when it starts and ends with
\* the quote character; then the stored description is the value without
\* its first and last character; every other value, the quote alone
\* included, is rejected with InvalidValue holding the raw value and the
\* message `DESCRIPTION must start and end with symbol "`.
C15_Description ==
    Validated("Description") =>
      IF Quoted(arg.value) /\ Len(arg.value) >= 2
      THEN /\ ret.kind = "Ok"
           /\ ret.rec = [arg.rec EXCEPT
                            !.description = [i \in 1..(Len(arg.value) - 2) |-> arg.value[i + 1]]]
      ELSE /\ ret.kind = "Err"
           /\ ret.err = InvalidValue(arg.value,
                                     <<"DESCRIPTION must start and end with symbol \"">>)

\* C15, the failure: the value is the quote alone, and the validator
\* panics.
C15_LoneQuotePanics ==
    /\ Validated("Description")
    /\ arg.value = <<QUOTE>>
    /\ ret.kind = "Panic"

\* Apart from the quote alone, the description validator does what C15
\* says.
C15_DescriptionLongerThanOne ==
    \/ Validated("Description") /\ arg.value = <<QUOTE>>
    \/ C15_Description

NumericKeys == {"TxId", "FromUserId", "ToUserId", "Amount", "Timestamp"}

\* The field of the record a numeric key stands for, and the message of its
\* validator.
FieldOf(key) ==
    CASE key = "TxId" -> "tx_id"
      [] key = "FromUserId" -> "from_user_id"
      [] key = "ToUserId" -> "to_user_id"
      [] key = "Amount" -> "amount"
      [] key = "Timestamp" -> "timestamp"

NotANumber(key) ==
    CASE key = "TxId" -> <<"TX_ID is not a number">>
      [] key = "FromUserId" -> <<"FROM_USER_ID is not a number">>
      [] key = "ToUserId" -> <<"TO_USER_ID is not a number">>
      [] key = "Amount" -> <<"AMOUNT is not a number">>
      [] key = "Timestamp" -> <<"TIMESTAMP is not a number">>

\* The decimal text of 2^64 - 1.
MaxText ==
    <<"1", "8", "4", "4", "6", "7", "4", "4", "0", "7", "3", "7", "0", "9", "5", "5", "1", "6",
      "1", "5">>

\* A text of digits without its leading zeros ("0" for zero).
RECURSIVE Canonical(_)
Canonical(d) == IF Len(d) > 1 /\ Head(d) = "0" THEN Canonical(Tail(d)) ELSE d

\* The canonical text d of digits denotes a number of at most 2^64 - 1.
AtMostMax(d) ==
    \/ Len(d) < Len(MaxText)
    \/ d = MaxText
    \/ /\ Len(d) = Len(MaxText)
       /\ \E i \in 1..Len(d) : /\ \A j \in 1..(i - 1) : d[j] = MaxText[j]
                               /\ DigitVal(d[i]) < DigitVal(MaxText[i])

\* value is one or more decimal digits (after a "+", if a sign is allowed)
\* that denote an integer of 0..2^64 - 1.
IsNumber(value, sign_allowed) ==
    LET d == IF sign_allowed /\ value # <<>> /\ Head(value) = "+" THEN Tail(value) ELSE value
    IN /\ d # <<>>
       /\ \A i \in 1..Len(d) : IsDigit(d[i])
       /\ AtMostMax(Canonical(d))

\* What a numeric validator returned, given which values count as numbers:
\* a number is stored in the field of the key and in no other field; any
\* other value yields InvalidValue with the raw value and the message of the
\* field, and the record is as before.
NumericValidator(sign_allowed) ==
    \A key \in NumericKeys :
       Validated(key) =>
         LET d == IF Head(arg.value) = "+" THEN Tail(arg.value) ELSE arg.value
             f == FieldOf(key)
         IN IF IsNumber(arg.value, sign_allowed)
            THEN /\ ret.kind = "Ok"
                 /\ uint_to_string(ret.rec[f]) = Canonical(d)
                 /\ [ret.rec EXCEPT ![f] = arg.rec[f]] = arg.rec
            ELSE /\ ret.kind = "Err"
                 /\ ret.err = InvalidValue(arg.value, NotANumber(key))
                 /\ ret.rec = arg.rec

\* C20 as stated: a numeric validator accepts a value exactly when it is
\* the decimal text (digits only) of an integer of 0..2^64 - 1, and stores
\* that integer; every other text is rejected with InvalidValue holding the
\* raw text and "<FIELD> is not a number", the field unchanged.
C20_NumericDigitsOnly == NumericValidator(FALSE)

\* C20, amended: a numeric validator accepts a value exactly when it is an
\* optional "+" followed by the decimal text of an integer of 0..2^64 - 1,
\* and stores that integer; every other text is rejected with InvalidValue
\* holding the raw text and "<FIELD> is not a number", the field unchanged.
C20_NumericOptionalPlus == NumericValidator(TRUE)

\* C20, the case: AMOUNT was given "+5" on a record whose amount was
\* u64::MAX, and 5 is stored.
C20_PlusAccepted ==
    /\ Validated("Amount")
    /\ arg.value = <<"+", "5">>
    /\ arg.rec.amount = U64Max
    /\ ret.kind = "Ok"
    /\ ret.rec.amount = U64Of(5)
----------------------------------------------------------------------------
(* Properties of reading a binary source that ends inside a frame *)

\* The source is whole frames followed by the first input.keep bytes of one
\* more frame, fewer than the frame has, and nothing after them.
CutInsideFrame ==
    /\ input.kind = "bin"
    /\ input.magic = <<89, 80, 66, 78>>
    /\ input.size = CraftedSize
    /\ input.keep < 8 + Len(CraftedBody)
    /\ ~input.followed

----------------------------------------------------------------------------
(* Properties of reading a text block that lacks several keys *)

\* The canonical keys without a line in the block, and the first of them
\* in canonical order.
KeysAbsent == KeySet \ KeysPresent

FirstAbsent ==
    EXPECTED_KEYS[CHOOSE i \in 1..Len(EXPECTED_KEYS) :
                    /\ EXPECTED_KEYS[i] \in KeysAbsent
                    /\ \A j \in 1..(i - 1) : EXPECTED_KEYS[j] \notin KeysAbsent]

\* The end of a block of valid lines that lacks two or more canonical keys
\* has been reached.
SeveralKeysAbsent ==
    /\ input.kind = "text"
    /\ AllLinesValid
    /\ Cardinality(KeysAbsent) >= 2
    /\ pc = "done"

\* C17: when the end of a block is reached with two or more canonical keys
\* absent, the result is MissingKey naming the first absent key in
\* canonical order (and so the same key on every read of the same input).
C17_FirstMissingKey ==
    SeveralKeysAbsent => result = ErrParse(MissingKey(RecordKey_to_string(FirstAbsent)))

\* C17, the failure: the block lacks TX_TYPE and STATUS, and the key named
\* is STATUS.
C17_LaterKeyNamed ==
    /\ SeveralKeysAbsent
    /\ KeysAbsent = {"TxType", "Status"}
    /\ result = ErrParse(MissingKey(<<"S", "T", "A", "T", "U", "S">>))

\* With several keys absent the result is MissingKey naming one of them.
C17_SomeMissingKey ==
    SeveralKeysAbsent =>
      \E K \in KeysAbsent : result = ErrParse(MissingKey(RecordKey_to_string(K)))
----------------------------------------------------------------------------
(* Properties of reading a binary frame with a crafted description *)

\* The records of the frames up to the crafted one, and of all frames, the
\* crafted one with description d.
LeadFrames == [i \in 1..input.lead |-> LeadRecord]

FramesWith(d) ==
    LeadFrames \o <<[CraftedRecord EXCEPT !.description = d]>>
    \o (IF input.followed THEN <<LeadRecord>> ELSE <<>>)

\* The bytes are UTF-8 text (of the characters of the samples).
IsUtf8(bytes) == \A i \in 1..Len(bytes) : bytes[i] < 128 \/ bytes[i] \in {195, 169}

\* C18: a frame whose description_len is 0 is accepted with an empty
\* description, although the empty string is no quoted value; with a
\* description_len above 0 the bytes are decoded as UTF-8 (bytes that are
\* not are rejected with InvalidValue) and the text goes through the
\* validation of descriptions: a quoted text is stored without its quotes,
\* a text that lacks a quote is rejected with the message of that
\* validation, and the quote alone ends as it does there, in a panic.
C18_DescriptionLen ==
    input.kind = "bin_description" /\ pc = "done" =>
      LET text == from_utf8(input.bytes).s
      IN IF input.bytes = <<>>
         THEN result = Ok(FramesWith(<<>>))
         ELSE IF ~IsUtf8(input.bytes)
         THEN /\ result.kind = "Err"
              /\ result.perr.variant = "InvalidValue"
              /\ result.perr.verr.description = <<"invalid utf-8 sequence">>
         ELSE IF ~Quoted(text)
         THEN result = ErrParse(InvalidValueError(InvalidValue(text,
                           <<"DESCRIPTION must start and end with symbol \"">>)))
         ELSE IF Len(text) = 1
         THEN result.kind = "Panic"
         ELSE result = Ok(FramesWith([i \in 1..(Len(text) - 2) |-> text[i + 1]]))

\* C18, the case: a frame with description_len = 0 between two other frames
\* was read, and the three records are returned.
C18_EmptyDescriptionRead ==
    /\ input.kind = "bin_description" /\ pc = "done"
    /\ input.bytes = <<>> /\ input.lead = 1 /\ input.followed
    /\ result.kind = "Ok"
    /\ Len(result.records) = 3
    /\ result.records[2].description = <<>>
----------------------------------------------------------------------------
(* Properties of the frames the binary writer writes *)

\* The bytes of an integer given as 16-bit limbs, most significant first.
BigEndian(v) ==
    [i \in 1..(2 * Len(v)) |-> IF i % 2 = 1 THEN v[(i + 1) \div 2] \div 256
                                             ELSE v[i \div 2] % 256]

\* The 4 bytes of a number below 2^16.
BigEndian32(n) == <<0, 0, n \div 256, n % 256>>

\* The number of bytes of a description.
RECURSIVE ByteLen(_)
ByteLen(d) ==
    IF d = <<>> THEN 0
    ELSE (IF Head(d) \in {EAcute, OtherTwoByte} THEN 2 ELSE 1) + ByteLen(Tail(d))

\* The frame of a record as C19 lays it out.
LaidOut(rec) ==
    <<89, 80, 66, 78>>
    \o BigEndian32(46 + (ByteLen(rec.description) + 2))
    \o BigEndian(rec.tx_id) \o <<CodeOf(rec.tx_type)>>
    \o BigEndian(rec.from_user_id) \o BigEndian(rec.to_user_id)
    \o BigEndian(rec.amount) \o BigEndian(rec.timestamp) \o <<CodeOf(rec.status)>>
    \o BigEndian32(ByteLen(rec.description) + 2)
    \o <<34>> \o as_bytes(rec.description) \o <<34>>

\* The frames of the first n records of R, one after the other.
RECURSIVE LaidOutUpTo(_)
LaidOutUpTo(n) == IF n = 0 THEN <<>> ELSE LaidOutUpTo(n - 1) \o LaidOut(R[n])

\* bytes is n frames, each with a record_size of 48 or more that counts
\* the bytes of the frame after the record_size field.
RECURSIVE WellSized(_, _)
WellSized(bytes, n) ==
    IF n = 0 THEN bytes = <<>>
    ELSE /\ Len(bytes) >= 8
         /\ LET size == bytes[7] * 256 + bytes[8]
            IN /\ bytes[5] = 0 /\ bytes[6] = 0
               /\ size >= 48
               /\ Len(bytes) >= 8 + size
               /\ WellSized(SubSeq(bytes, 9 + size, Len(bytes)), n - 1)

\* C19: for each record the binary writer writes the magic, record_size =
\* 46 + (len(d) + 2), the fixed fields big-endian in layout order with the
\* byte codes of kind and status, description_len = len(d) + 2 and the
\* description between two quotes, len(d) being the number of bytes of the
\* description; record_size is the number of bytes that follow it in the
\* frame and is 48 or more.
C19_BinFrame ==
    input.kind = "roundtrip" /\ fmt = "bin" =>
      /\ out = LaidOutUpTo(wi)
      /\ WellSized(out, wi)

\* C19, the case: two records were written, the first with an empty
\* description (a frame of 8 + 48 bytes), the second with a description
\* that holds a two-byte character.
C19_BinFrameWritten ==
    /\ input.kind = "roundtrip" /\ fmt = "bin"
    /\ wi = 2
    /\ R[1].description = <<>>
    /\ ByteLen(R[2].description) > Len(R[2].description)
    /\ Len(out) = 56 + 56 + ByteLen(R[2].description)
----------------------------------------------------------------------------
(* Properties of reading a permuted text block *)

\* The field of each key after its second line was read.
WithOther(rec, key) ==
    CASE key = "TxId" -> [rec EXCEPT !.tx_id = U64Of(7)]
      [] key = "TxType" -> [rec EXCEPT !.tx_type = "Deposit"]
      [] key = "FromUserId" -> [rec EXCEPT !.from_user_id = U64Of(8)]
      [] key = "ToUserId" -> [rec EXCEPT !.to_user_id = U64Of(9)]
      [] key = "Amount" -> [rec EXCEPT !.amount = U64Zero]
      [] key = "Timestamp" -> [rec EXCEPT !.timestamp = U64Of(6)]
      [] key = "Status" -> [rec EXCEPT !.status = "Pending"]
      [] key = "Description" -> [rec EXCEPT !.description = <<"#">>]

\* The position of the line of key among the 8 lines of the block.
PositionOf(key) == CHOOSE i \in 1..8 : input.keys[i] = key

\* The record of the 8 lines: 1001, TRANSFER, 2, 3, 4, 5, FAILURE, "a b".
EightLinesRecord ==
    [tx_id |-> <<0, 0, 0, 1001>>, tx_type |-> "Transfer", from_user_id |-> <<0, 0, 0, 2>>,
     to_user_id |-> <<0, 0, 0, 3>>, amount |-> <<0, 0, 0, 4>>, timestamp |-> <<0, 0, 0, 5>>,
     status |-> "Failure", description |-> <<"a", " ", "b">>]

\* C21: a block in which one canonical key has two lines with valid values
\* is accepted, and the field holds the value of the later of the two
\* lines, wherever in the block the two lines stand.
C21_LastOccurrenceWins ==
    (input.kind = "order" /\ input.second # "None" /\ pc = "done") =>
        result = Ok(<<IF input.at >= PositionOf(input.second)
                      THEN WithOther(EightLinesRecord, input.second)
                      ELSE EightLinesRecord>>)

\* C21, the case: the second STATUS line stands at the end of the block, the
\* first is the second line of the block, and the record read has the value
\* of the second.
C21_LaterLineRead ==
    /\ input.kind = "order" /\ pc = "done"
    /\ input.second = "Status" /\ input.at = 8 /\ PositionOf("Status") = 2
    /\ result.kind = "Ok"
    /\ result.records[1].status = "Pending"

\* C22: the 8 valid lines of a block, in whatever order and with comment
\* lines before, between or after them, are read as the same record.
C22_OrderAndComments ==
    (input.kind = "order" /\ input.second = "None" /\ pc = "done") =>
        result = Ok(<<EightLinesRecord>>)

\* C22, the case: the lines stand in another order than the canonical one,
\* with two comment lines after the third, and the record was read.
C22_PermutedBlockRead ==
    /\ input.kind = "order" /\ input.second = "None" /\ pc = "done"
    /\ input.keys # EXPECTED_KEYS /\ input.keys[1] = "Description"
    /\ input.comments = 2 /\ input.at = 3
    /\ result = Ok(<<EightLinesRecord>>)
----------------------------------------------------------------------------
(* Properties of reading a text source that goes on after its last record *)

\* The records of the blocks of the source.
BlockRecords == [i \in 1..Len(input.blocks) |-> BlockRecord(input.blocks[i])]

\* The source holds at least one block, and the read is over.
ReadWithTrailing == input.kind = "trailing" /\ Len(input.blocks) >= 1 /\ pc = "done"

\* C23: when what follows the last record holds no `KEY: value` line, no
\* record is made of it and the read returns the records before it.
C23_TrailingBlank == ReadWithTrailing => result = Ok(BlockRecords)

\* C23, the failure: two blank lines follow the last record, and the read
\* returns MissingKey.
C23_TwoBlankLinesRejected ==
    /\ ReadWithTrailing
    /\ input.trailing = <<NL, NL, NL>>
    /\ result.kind = "Err"
    /\ result.perr.variant = "MissingKey"

\* When the last line is followed by nothing, by its newline or by one
\* blank line, or by its newline and comments, the read returns the
\* records.
C23_AtMostOneBlankLine ==
    (ReadWithTrailing /\ input.trailing \in {<<>>, <<NL>>, <<NL, NL>>,
                                             <<NL>> \o CommentLine \o <<NL>>}) =>
        result = Ok(BlockRecords)
----------------------------------------------------------------------------
(* Properties of reading a CSV source to its end *)

\* The records of the two lines that are records.
CsvRecordOf(line) ==
    IF Head(line) = "1" /\ line[2] = ","
    THEN [tx_id |-> <<0, 0, 0, 1>>, tx_type |-> "Deposit", from_user_id |-> <<0, 0, 0, 0>>,
          to_user_id |-> <<0, 0, 0, 501>>, amount |-> <<0, 0, 0, 50000>>,
          timestamp |-> <<0, 0, 0, 7>>, status |-> "Success",
          description |-> <<"x", ",", "y", ",">>]
    ELSE [tx_id |-> <<0, 0, 0, 1001>>, tx_type |-> "Transfer", from_user_id |-> <<0, 0, 0, 2>>,
          to_user_id |-> <<0, 0, 0, 3>>, amount |-> <<0, 0, 0, 4>>,
          timestamp |-> <<0, 0, 0, 5>>, status |-> "Failure", description |-> <<"a">>]

\* The source is the canonical header and lines that are records, the last
\* line with or without its newline, and nothing after it.
OnlyRecordLines ==
    /\ input.kind = "csv"
    /\ input.header = CanonicalHeader
    /\ \A i \in 1..Len(input.lines) : input.lines[i] \in CsvRecordLines

----------------------------------------------------------------------------
(* Properties of the first line of a CSV source *)

\* The header as C25 spells it.
SpelledHeader ==
    <<"T", "X", "_", "I", "D", ",", "T", "X", "_", "T", "Y", "P", "E", ",",
      "F", "R", "O", "M", "_", "U", "S", "E", "R", "_", "I", "D", ",",
      "T", "O", "_", "U", "S", "E", "R", "_", "I", "D", ",", "A", "M", "O", "U", "N", "T", ",",
      "T", "I", "M", "E", "S", "T", "A", "M", "P", ",", "S", "T", "A", "T", "U", "S", ",",
      "D", "E", "S", "C", "R", "I", "P", "T", "I", "O", "N">>

\* A source whose lines after the first are records has been read: the
\* read is Ok exactly when the first line was accepted.
HeaderRead == input.kind = "header" /\ pc = "done"

\* C25: each implementation of the CSV read accepts the first line exactly
\* when, without its newline, it is the canonical header byte for byte;
\* every other first line is rejected (and so the implementations accept
\* the same first lines).
C25_HeaderByteForByte == HeaderRead => (result.kind = "Ok" <=> input.header = SpelledHeader)

\* C25, the failure: the first line is the header followed by a carriage
\* return, and YPBankCsv::read_from accepts it and returns the record of the
\* line after it.
C25_CarriageReturnAccepted ==
    /\ HeaderRead
    /\ input.impl = "csv_format.rs"
    /\ input.header = SpelledHeader \o <<"\r">>
    /\ Len(input.lines) = 1
    /\ result.kind = "Ok" /\ Len(result.records) = 1

\* YPBank::read_from_csv and the generated body accept the canonical header
\* and no other first line.
C25_LibHeaderByteForByte ==
    \/ input.kind = "header" /\ input.impl = "csv_format.rs"
    \/ C25_HeaderByteForByte
----------------------------------------------------------------------------
(* Properties of the bytes a binary frame takes *)

\* The bytes of a frame: magic, record_size, 46 of fixed fields and
\* description_len, and the quoted description.
FrameBytes(rec) == 8 + 46 + (ByteLen(rec.description) + 2)

\* The crafted frame of the source is whole, has the right magic and a
\* record_size of 46 or more, and has been read as a record.
CraftedFrameRead ==
    /\ input.kind = "bin"
    /\ input.magic = <<89, 80, 66, 78>>
    /\ ~SizeBelowMin
    /\ input.keep = 8 + Len(CraftedBody)
    /\ Len(records) = input.lead + 1

\* C26: a frame that was read as a record has taken 8 + 46 +
\* description_len bytes of the source, whatever its record_size of 46 or
\* more; the next frame is read from the byte after the description, and
\* so is read as its record.
C26_FrameBytes ==
    /\ (CraftedFrameRead /\ pc \in {"bin_loop", "bin_magic"}) =>
          pos = input.lead * FrameBytes(LeadRecord) + FrameBytes(CraftedRecord)
    /\ (CraftedFrameRead /\ pc = "bin_size") =>
          pos = input.lead * FrameBytes(LeadRecord) + FrameBytes(CraftedRecord) + 4
    /\ (input.kind = "bin" /\ input.magic = <<89, 80, 66, 78>> /\ ~SizeBelowMin
        /\ input.keep = 8 + Len(CraftedBody) /\ pc = "done") => result = Ok(AllFrames)

\* C26, the case: a frame of 60 bytes whose record_size is 1000 was read
\* after a frame of 56 bytes, and the magic of the next frame is about to
\* be read at offset 116.
C26_NextFrameAtOffset ==
    /\ CraftedFrameRead
    /\ input.size = U32Of(1000) /\ input.lead = 1 /\ input.followed
    /\ pc = "bin_magic"
    /\ pos = 116
----------------------------------------------------------------------------
(* Properties of the order of the records *)

RECURSIVE Emitted(_, _)
\* What a writer of format f has put in the sink after n records of R: the
\* header of the CSV format, then the records one after the other, those of
\* the text format with a newline between two of them.
Emitted(f, n) ==
    IF n = 0
    THEN IF f = "csv" /\ pc # "write_header" THEN prepare_header \o <<NL>> ELSE <<>>
    ELSE Emitted(f, n - 1) \o
         CASE f = "text" -> (IF n > 1 THEN <<NL>> ELSE <<>>) \o to_text(R[n])
           [] f = "csv" -> to_csv(R[n])
           [] f = "bin" -> to_bin(R[n])

\* C27: a write puts the records in the sink in the order of the RecordSet,
\* each one whole before the next; a read of what was written collects the
\* records in the order of their blocks, lines or frames, so the records
\* read so far are always the first records of R, and a read that returns
\* Ok returns every record of R, once and in that order.
C27_RecordOrder ==
    input.kind = "roundtrip" =>
        /\ out = Emitted(fmt, wi)
        /\ pc \notin {"write_header", "write"} => src = Emitted(fmt, Len(R))
        /\ Len(records) <= Len(R)
        /\ records = SubSeq(R, 1, Len(records))
        /\ (pc = "done" /\ result.kind = "Ok") => result.records = R

\* C27, the case: two different records were written as text, the second
\* after the first, and read back in that order.
C27_TwoRecordsInOrder ==
    /\ ReadBack("text")
    /\ Len(R) = 2 /\ R[1] # R[2]
    /\ out = to_text(R[1]) \o <<NL>> \o to_text(R[2])
    /\ result.kind = "Ok"
    /\ result.records[1] = R[1] /\ result.records[2] = R[2]
----------------------------------------------------------------------------
(* Properties of the first failure of a text block *)

\* The lines that are neither a comment nor a valid `KEY: value` line, and
\* that std reads as text.
OffendingLines ==
    {BadTxIdLine, BadAmountLine, UnknownKeyLine, LowerCaseKeyLine, EmptyKeyLine,
     NoColonLine, NoSpaceLine}

\* The error each of those lines is to end the parse with.
LineFailure(line, e) ==
    CASE line = NoSpaceLine -> e.variant = "UnexpectedError"
      [] line = NoColonLine -> e = ColonNotFound(<<"T", "O", "_", "U", "S", "E", "R", "_", "I", "D">>)
      [] line \in UnknownKeyLines -> e = InvalidKey(UnknownKeyOf(line))
      [] line = BadTxIdLine -> e.variant = "InvalidValue" /\ e.verr.value = <<"A", "B", "C">>
      [] line = BadAmountLine -> e.variant = "InvalidValue" /\ e.verr.value = <<"-", "1">>

\* The first line of the block that is an offending line, NoLine if none.
FirstOffending ==
    IF input.first \in OffendingLines THEN input.first
    ELSE IF input.last \in OffendingLines THEN input.last
    ELSE NoLine

\* The offset after the first offending line.
AfterFirstOffending ==
    IF input.first \in OffendingLines
    THEN Len(input.first) + (IF Len(src) > Len(input.first) THEN 1 ELSE 0)
    ELSE Len(src)

\* C28: the first line of a block that has no space, no colon after its
\* key, an unknown key or an invalid value ends the read with the error of
\* that line, as soon as it is read and whichever canonical keys are
\* missing from the block; MissingKey is returned only at the end of a
\* block whose lines are all valid.
C28_FirstFailure ==
    (input.kind = "text" /\ pc = "done") =>
        /\ FirstOffending # NoLine =>
              /\ result.kind = "Err"
              /\ LineFailure(FirstOffending, result.perr)
              /\ pos = AfterFirstOffending
              /\ records = <<>>
        /\ result.perr.variant = "MissingKey" =>
              /\ AllLinesValid
              /\ KeysAbsent # {}
              /\ pos = Len(src)

\* C28, the case: a block without its TX_TYPE and STATUS lines, whose
\* first line has an invalid value and whose last line has no colon, was
\* rejected for the first line, the rest of the block unread.
C28_FailureBeforeMissingKey ==
    /\ input.kind = "text" /\ pc = "done"
    /\ input.missing = {"TxType", "Status"}
    /\ input.first = BadTxIdLine /\ input.last = NoColonLine
    /\ result.perr.variant = "InvalidValue"
    /\ pos = Len(BadTxIdLine) + 1 /\ pos < Len(src)
----------------------------------------------------------------------------
(* Properties of the first failure of a binary frame *)

\* The offset of the frame that is wrong.
StagedStart == input.lead * FrameBytes(LeadRecord)

\* The bytes that are no code of TxType, and of Status.
BadCode(byte) == byte \notin {0, 1, 2}

\* The read has ended with the end-of-stream error of a read_exact.
EndedWithIo == result = ErrParse(UnexpectedError(<<"failed to fill whole buffer">>))

\* The read has ended with InvalidValue for the byte of the enum named, the
\* source read up to `offset` bytes of the frame.
EndedWithCode(enum, byte, offset) ==
    /\ result.kind = "Err"
    /\ result.perr.variant = "InvalidValue"
    /\ result.perr.verr.value = Decimal(byte)
    /\ result.perr.verr.description = <<"Invalid " \o enum \o ": ">> \o Decimal(byte)
    /\ pos = StagedStart + offset

\* C29: a frame is checked in the order of its bytes and the first failure
\* is the one returned: the magic before record_size, record_size below 46
\* before any field, the tx_type code before the status code, the status
\* code before the description; the bytes after the field that fails are
\* not read, so a cut after that field changes nothing.
C29_StreamOrder ==
    (input.kind = "bin_stages" /\ pc = "done") =>
        IF input.magic # <<89, 80, 66, 78>>
        THEN result = ErrParse(InvalidMagicNumber) /\ pos = StagedStart + 4
        ELSE IF input.keep < 8 THEN EndedWithIo
        ELSE IF input.size[1] = 0 /\ input.size[2] < 46
        THEN result = ErrParse(InvalidRecordSize(input.size)) /\ pos = StagedStart + 8
        ELSE IF input.keep < 17 THEN EndedWithIo
        ELSE IF BadCode(input.tx_type) THEN EndedWithCode("TX_TYPE", input.tx_type, 17)
        ELSE IF input.keep < 50 THEN EndedWithIo
        ELSE IF BadCode(input.status) THEN EndedWithCode("STATUS", input.status, 50)
        ELSE IF input.keep < 54 + Len(input.bytes) THEN EndedWithIo
        ELSE IF input.bytes # <<34, 97, 98, 34>>
        THEN result.kind = "Err" /\ result.perr.variant = "InvalidValue"
        ELSE result.kind = "Ok" /\ Len(result.records) = input.lead + 1

\* C29, the case: a frame whose tx_type byte and status byte are both 3,
\* cut inside its user ids, was rejected for its tx_type.
C29_InvalidCodeInCutFrame ==
    /\ input.kind = "bin_stages" /\ pc = "done"
    /\ input.magic = <<89, 80, 66, 78>> /\ input.size = U32Of(50)
    /\ input.tx_type = 3 /\ input.status = 3 /\ input.keep = 30
    /\ EndedWithCode("TX_TYPE", 3, 17)
----------------------------------------------------------------------------
(* Properties of the end of a read *)

\* The states in which a read loop tests whether the source has bytes left.
LoopHeads == {"text_loop", "csv_loop", "bin_loop"}

\* The iteration that has just put a record in the Vec has taken at least
\* one byte of the source: the position is beyond the one the loop last
\* tested its condition at.
IterationConsumes ==
    /\ mark <= pos /\ pos <= Len(src)
    /\ (pc \in LoopHeads /\ records # <<>>) => mark < pos

\* Every step of a read changes its control point, its position in the
\* source or its count of validated parts.
StepsAreRunning == [][<<pc, pos, fi>>' # <<pc, pos, fi>>]_vars

\* C30: every read of a finite source ends, and ends with Ok or Err; every
\* iteration of the read loop that returns to the loop takes at least one
\* byte of the source.
C30_EndsWithOkOrErr ==
    /\ []IterationConsumes
    /\ <>(pc = "done" /\ result.kind \in {"Ok", "Err"})

\* C30, the failure: a text source of one block whose description value
\* is a lone quote was read to that line, and the read ended by a panic,
\* with neither Ok nor Err.
C30_EndsWithPanic ==
    /\ input.kind = "blocks" /\ pc = "done"
    /\ Len(input.blocks) = 1
    /\ input.blocks[1] = BlockLines(NoLine, EXPECTED_KEYS, {"Description"}, LoneQuoteLine)
    /\ records = <<>> /\ mark = 0 /\ pos > 0
    /\ result = Panicked

\* C30, what the readers do guarantee: every read ends, with Ok, with Err or
\* by a panic, and every iteration that returns to the loop takes at least
\* one byte.
C30_Ends ==
    /\ []IterationConsumes
    /\ StepsAreRunning
    /\ <>(pc = "done" /\ result.kind \in {"Ok", "Err", "Panic"})
====
